---- MODULE Spec2Model ----
(***************************************************************************)
(* Live PA Audio Analyzer V3.0: a model of the history store               *)
(* (AudioDatabase), the equipment profile lookup (EquipmentSpecsSearcher), *)
(* the line-up parser (InstrumentSeparator._parse_lineup), the instrument  *)
(* diagnosis (InstrumentAnalyzer), the comparison with past sessions       *)
(* (ComparisonAnalyzer), the analysis request and the session of main(),   *)
(* and the pages of the authenticated application.                         *)
(*                                                                         *)
(* Text is modelled as a sequence of characters, one short string per      *)
(* character.  ASCII characters stand for themselves; a katakana character *)
(* is written "*" followed by its romanisation ("*bo" is the katakana BO,  *)
(* "*-" the long-vowel mark) and "*," is the ideographic comma.  Levels    *)
(* are whole decibels.                                                     *)
(***************************************************************************)
EXTENDS Integers, Sequences, FiniteSets, TLC

VARIABLES
    text,           \* _parse_lineup: the instrumentation text
    instruments,    \* _parse_lineup: the list it returned
    parsed,         \* _parse_lineup has returned
    mixer_name,     \* the console name typed in
    pa_system,      \* the loudspeaker system name typed in
    mixer_specs,    \* the console profile looked up (None when absent)
    pa_specs,       \* the loudspeaker profile looked up (None when absent)
    cache,          \* EquipmentSpecsSearcher.cache
    searched,       \* the lookups made so far
    stems,          \* the tags of the stems separated, in the order of the dict
    stem_m,         \* what the signal processing measures on each stem
    v2_rms_db,      \* v2_results['rms_db'], the level of the whole mix
    past_analyses,  \* the past sessions handed to InstrumentAnalyzer
    inst_analyses,  \* what analyze_all returned, or the exception it raised
    phase,          \* the position of the request in main()
    history,        \* AudioDatabase.history of the session
    file,           \* the content of audio_history.json
    clock,          \* the wall clock, in seconds
    metadata,       \* the metadata of the current request
    limit,          \* the limit find_similar was called with
    similar_entries,\* what find_similar returned
    match_types,    \* the match_type of each comparison of compare_all
    v2_results,     \* the mix metrics ComparisonAnalyzer is given as self.current
    sess,           \* per session: its AudioDatabase and where it stands
    before,         \* the history persisted before the sessions began
    fault,          \* the stage at which a library call raises in this request
    done,           \* the stages of the request that completed without raising
    add_calls,      \* the calls of add_entry in this request
    session_state,  \* st.session_state of the browser session
    shown,          \* the page the latest run of the script rendered
    user_analyses   \* the analyses the authenticated application has stored

parseVars == <<text, instruments, parsed>>

equipVars == <<mixer_name, pa_system, mixer_specs, pa_specs, cache, searched>>

diagVars == <<stems, stem_m, v2_rms_db, past_analyses, inst_analyses, phase>>

storeVars == <<history, file, clock>>

simVars == <<metadata, limit, similar_entries, match_types, v2_results>>

dbVars == <<sess, before>>

runVars == <<fault, done, add_calls>>

uiVars == <<session_state, shown, user_analyses>>

vars == <<parseVars, equipVars, diagVars, storeVars, simVars, dbVars, runVars, uiVars>>

\* what each specification leaves alone
exceptParse == <<equipVars, diagVars, storeVars, simVars, dbVars, runVars, uiVars>>

exceptEquip == <<parseVars, diagVars, storeVars, simVars, dbVars, runVars, uiVars>>

exceptDiag == <<parseVars, storeVars, simVars, dbVars, runVars, uiVars>>

exceptSim == <<parseVars, equipVars, diagVars, dbVars, runVars, uiVars>>

exceptUi == <<parseVars, equipVars, diagVars, storeVars, simVars, dbVars, runVars>>

exceptDb == <<parseVars, equipVars, diagVars, simVars, runVars, uiVars>>

(***************************************************************************)
(* Helpers on sequences                                                    *)
(***************************************************************************)
Range(s) == {s[i] : i \in 1..Len(s)}

\* Python's `sub in s` for strings
Contains(s, sub) ==
    \E i \in 0..(Len(s) - Len(sub)) :
        \A j \in 1..Len(sub) : s[i + j] = sub[j]

Abs(x) == IF x < 0 THEN -x ELSE x

(***************************************************************************)
(* Python values                                                           *)
(***************************************************************************)
None == [none |-> TRUE]

\* dict.get(key, default) on a record that holds only the keys present (a
\* capability flag that is absent reads as None, which is falsy: FALSE)
Get(rec, key, default) == IF key \in DOMAIN rec THEN rec[key] ELSE default

Letters ==
    << <<"a", "A">>, <<"b", "B">>, <<"c", "C">>, <<"d", "D">>, <<"e", "E">>,
       <<"f", "F">>, <<"g", "G">>, <<"h", "H">>, <<"i", "I">>, <<"j", "J">>,
       <<"k", "K">>, <<"l", "L">>, <<"m", "M">>, <<"n", "N">>, <<"o", "O">>,
       <<"p", "P">>, <<"q", "Q">>, <<"r", "R">>, <<"s", "S">>, <<"t", "T">>,
       <<"u", "U">>, <<"v", "V">>, <<"w", "W">>, <<"x", "X">>, <<"y", "Y">>,
       <<"z", "Z">> >>

\* str.lower() and str.upper() on one character
LowerChar(c) ==
    IF \E i \in 1..Len(Letters) : Letters[i][2] = c
    THEN Letters[CHOOSE i \in 1..Len(Letters) : Letters[i][2] = c][1]
    ELSE c

UpperChar(c) ==
    IF \E i \in 1..Len(Letters) : Letters[i][1] = c
    THEN Letters[CHOOSE i \in 1..Len(Letters) : Letters[i][1] = c][2]
    ELSE c

Lower(s) == [i \in 1..Len(s) |-> LowerChar(s[i])]

Upper(s) == [i \in 1..Len(s) |-> UpperChar(s[i])]

IsSpace(c) == c = " "

\* str.strip()
RECURSIVE LStrip(_)
LStrip(s) == IF s /= <<>> /\ IsSpace(Head(s)) THEN LStrip(Tail(s)) ELSE s

RECURSIVE RStrip(_)
RStrip(s) ==
    IF s /= <<>> /\ IsSpace(s[Len(s)]) THEN RStrip(SubSeq(s, 1, Len(s) - 1)) ELSE s

Strip(s) == LStrip(RStrip(s))

\* any(keyword in s for keyword in keywords)
ContainsAny(s, keywords) == \E kw \in keywords : Contains(s, kw)

(***************************************************************************)
(* AudioDatabase.  The history is a sequence of entries; now is the clock  *)
(* reading at the call, in whole seconds and microseconds.                 *)
(***************************************************************************)
\* the entry add_entry builds: the id is the clock to the second, and the
\* per-instrument diagnoses are always stored as an empty dict
NewEntry(analysis_result, meta, now) ==
    [id |-> now.second,
     timestamp |-> <<now.second, now.micro>>,
     metadata |-> meta,
     analysis |-> [rms_db |-> Get(analysis_result, "rms_db", 0),
                   peak_db |-> Get(analysis_result, "peak_db", 0),
                   stereo_width |-> Get(analysis_result, "stereo_width", 0),
                   crest_factor |-> Get(analysis_result, "crest_factor", 0),
                   band_energies |-> Get(analysis_result, "band_energies", <<>>),
                   instruments |-> <<>>],
     equipment |-> [mixer |-> Get(meta, "mixer", None),
                    pa_system |-> Get(meta, "pa_system", None)]]

\* add_entry: the history after the append (save then writes it out)
add_entry(hist, analysis_result, meta, now) ==
    Append(hist, NewEntry(analysis_result, meta, now))

\* the file once save has written hist out in full
Saved(hist) == [valid |-> TRUE, entries |-> hist]

\* the file once open(path, 'w') has truncated it and while it holds only a
\* part of the JSON text
Unfinished(written) == [valid |-> FALSE, entries |-> written]

\* save, run to its end
save(hist) == Saved(hist)

\* load: a file that does not parse leaves the history empty (bare except)
load(f) == IF f.valid THEN f.entries ELSE <<>>

\* the score find_similar gives an entry
SimilarityScore(current_metadata, entry) ==
    (IF Abs(Get(current_metadata, "venue_capacity", 0)
            - Get(entry.metadata, "venue_capacity", 0)) < 50 THEN 30 ELSE 0)
    + (IF Get(current_metadata, "mixer", None) = Get(entry.equipment, "mixer", None)
       THEN 40 ELSE 0)
    + (IF Get(current_metadata, "pa_system", None) = Get(entry.equipment, "pa_system", None)
       THEN 30 ELSE 0)

\* an insertion that puts a later element before the earlier ones of its score
RECURSIVE InsertBeforeEqual(_, _)
InsertBeforeEqual(sorted, p) ==
    IF sorted = <<>> THEN <<p>>
    ELSE IF Head(sorted).score > p.score
         THEN <<Head(sorted)>> \o InsertBeforeEqual(Tail(sorted), p)
         ELSE <<p>> \o sorted

\* list.sort(key=score, reverse=True): stable, so equal scores keep their order
RECURSIVE InsertByScore(_, _)
InsertByScore(sorted, p) ==
    IF sorted = <<>> THEN <<p>>
    ELSE IF Head(sorted).score >= p.score
         THEN <<Head(sorted)>> \o InsertByScore(Tail(sorted), p)
         ELSE <<p>> \o sorted

RECURSIVE SortByScore(_)
SortByScore(ps) ==
    IF ps = <<>> THEN <<>>
    ELSE InsertByScore(SortByScore(SubSeq(ps, 1, Len(ps) - 1)), ps[Len(ps)])

\* [x for x in seq if keep(x)]
RECURSIVE AboveThreshold(_)
AboveThreshold(scored) ==
    IF scored = <<>> THEN <<>>
    ELSE (IF Head(scored).score > 20 THEN <<Head(scored).entry>> ELSE <<>>)
         \o AboveThreshold(Tail(scored))

ScoredEntries(hist, current_metadata) ==
    [i \in 1..Len(hist) |->
        [entry |-> hist[i], score |-> SimilarityScore(current_metadata, hist[i])]]

\* a find_similar that returns the top entries whatever their score
find_similar_unfiltered(hist, current_metadata, lim) ==
    LET similar == SortByScore(ScoredEntries(hist, current_metadata))
        top == SubSeq(similar, 1, IF lim < Len(similar) THEN lim ELSE Len(similar))
    IN  [i \in 1..Len(top) |-> top[i].entry]

\* find_similar for a limit that is a count (lim >= 0)
find_similar(hist, current_metadata, lim) ==
    LET similar == SortByScore(ScoredEntries(hist, current_metadata))
    IN  AboveThreshold(SubSeq(similar, 1, IF lim < Len(similar) THEN lim ELSE Len(similar)))

(***************************************************************************)
(* EquipmentSpecsSearcher                                                  *)
(***************************************************************************)
\* the module defines no web_search: the call raises NameError, which the
\* bare except around it swallows, so no query adds a result
web_search(query) == "NameError"

SearchResults(name) ==
    LET queries == {1, 2, 3}
    IN  {q \in queries : web_search(q) /= "NameError"}

DefaultMixerSpecs(mname) ==
    [name |-> mname, eq_bands |-> 4, eq_type |-> "Parametric"]

_get_known_mixer_specs(mname) ==
    LET name_upper == Upper(mname)
    IN  IF \/ Contains(name_upper, <<"C", "L", "5">>)
           \/ Contains(name_upper, <<"C", "L", "3">>)
           \/ Contains(name_upper, <<"C", "L", "1">>)
        THEN [name |-> <<"Y", "a", "m", "a", "h", "a", " ", "C", "L", " ", "S", "e", "r", "i", "e", "s">>, eq_bands |-> 8, eq_type |-> "Parametric",
              has_de_esser |-> TRUE, has_dynamic_eq |-> TRUE]
        ELSE IF Contains(name_upper, <<"Q", "L", "5">>) \/ Contains(name_upper, <<"Q", "L", "1">>)
        THEN [name |-> <<"Y", "a", "m", "a", "h", "a", " ", "Q", "L", " ", "S", "e", "r", "i", "e", "s">>, eq_bands |-> 8, eq_type |-> "Parametric",
              has_de_esser |-> TRUE, has_dynamic_eq |-> FALSE]
        ELSE IF Contains(name_upper, <<"X", "3", "2">>)
        THEN [name |-> <<"B", "e", "h", "r", "i", "n", "g", "e", "r", " ", "X", "3", "2">>, eq_bands |-> 4, eq_type |-> "Parametric",
              has_de_esser |-> FALSE, has_dynamic_eq |-> FALSE]
        ELSE IF Contains(name_upper, <<"S", "Q">>)
        THEN [name |-> <<"A", "l", "l", "e", "n", " ", "&", " ", "H", "e", "a", "t", "h", " ", "S", "Q", " ", "S", "e", "r", "i", "e", "s">>, eq_bands |-> 4, eq_type |-> "Parametric",
              has_de_esser |-> TRUE, has_dynamic_eq |-> FALSE]
        ELSE DefaultMixerSpecs(mname)

_parse_mixer_specs(mname, search_results) == _get_known_mixer_specs(mname)

\* search_mixer_specs on a searcher whose cache is c: the value returned and
\* the cache afterwards
search_mixer_specs(c, mname) ==
    LET cache_key == Strip(Lower(mname))
    IN  IF mname = <<>> THEN [ret |-> None, cache |-> c]
        ELSE IF cache_key \in DOMAIN c THEN [ret |-> c[cache_key], cache |-> c]
        ELSE IF SearchResults(mname) /= {}
        THEN LET specs == _parse_mixer_specs(mname, SearchResults(mname))
             IN  [ret |-> specs,
                  cache |-> [k \in DOMAIN c \cup {cache_key} |->
                                IF k = cache_key THEN specs ELSE c[k]]]
        ELSE [ret |-> _get_known_mixer_specs(mname), cache |-> c]

\* the lookup without its final else branch
NoDefaultPaSpecs(pa_name) == None

DefaultPaSpecs(pa_name) ==
    [name |-> pa_name, type |-> "Unknown", low_extension |-> 50, high_extension |-> 18000,
     recommendations |-> [kick_hpf |-> "40Hz (standard)", vocal |-> "standard EQ",
                          overall |-> "generic"]]

_get_known_pa_specs(pa_name) ==
    LET name_lower == Lower(pa_name)
    IN  IF ContainsAny(name_lower,
              { <<"d", "&", "b">>, <<"d", "&", "a", "m", "p", ";", "b">>, <<"d", "b", " ", "a", "u", "d", "i", "o">>, <<"a", "u", "d", "i", "o", "t", "e", "c", "h", "n", "i", "k">>,
                <<"v", "-", "s", "e", "r", "i", "e", "s">>, <<"v", " ", "s", "e", "r", "i", "e", "s">>, <<"j", "-", "s", "e", "r", "i", "e", "s">>, <<"j", " ", "s", "e", "r", "i", "e", "s">>,
                <<"k", "s", "l">>, <<"g", "s", "l">>, <<"s", "l", "-", "s", "e", "r", "i", "e", "s">>, <<"s", "l", " ", "s", "e", "r", "i", "e", "s">>,
                <<"y", "-", "s", "e", "r", "i", "e", "s">>, <<"y", " ", "s", "e", "r", "i", "e", "s">>, <<"e", "-", "s", "e", "r", "i", "e", "s">>, <<"e", " ", "s", "e", "r", "i", "e", "s">> })
        THEN [name |-> <<"d", "&", "b", " ", "A", "u", "d", "i", "o", "t", "e", "c", "h", "n", "i", "k">>, type |-> "Line Array / Point Source",
              low_extension |-> 45, high_extension |-> 18000,
              eq_compensation |-> <<"2.5kHz Q=2.0 -1.5dB", "100Hz Q=1.0 +1dB">>,
              feedback_prone |-> <<250, 500, 2000, 4000>>,
              recommendations |-> [kick_hpf |-> "35Hz (d&b)", vocal |-> "light EQ",
                                   overall |-> "flat"]]
        ELSE IF ContainsAny(name_lower,
              { <<"j", "b", "l">>, <<"v", "t", "x">>, <<"v", "r", "x">>, <<"p", "r", "x">>, <<"s", "r", "x">>, <<"v", "e", "r", "t", "e", "c">>, <<"p", "r", "o", "f", "e", "s", "s", "i", "o", "n", "a", "l">> })
        THEN [name |-> <<"J", "B", "L", " ", "P", "r", "o", "f", "e", "s", "s", "i", "o", "n", "a", "l">>, type |-> "Line Array / Point Source",
              low_extension |-> 50, high_extension |-> 20000,
              eq_compensation |-> <<"8kHz Q=1.5 -2dB", "80Hz Q=1.0 +1.5dB">>,
              feedback_prone |-> <<315, 630, 2500, 5000>>,
              recommendations |-> [kick_hpf |-> "30-35Hz (JBL)", vocal |-> "watch sibilance",
                                   overall |-> "bright"]]
        ELSE IF ContainsAny(name_lower,
              { <<"l", "-", "a", "c", "o", "u", "s", "t", "i", "c", "s">>, <<"l", " ", "a", "c", "o", "u", "s", "t", "i", "c", "s">>, <<"k", "a", "r", "a">>, <<"a", "r", "c", "s">>, <<"s", "y", "v", "a">>,
                <<"a", "-", "s", "e", "r", "i", "e", "s">>, <<"a", " ", "s", "e", "r", "i", "e", "s">>, <<"k", "1">>, <<"k", "2">>, <<"v", "-", "d", "o", "s", "c">>, <<"s", "b">> })
        THEN [name |-> <<"L", "-", "A", "c", "o", "u", "s", "t", "i", "c", "s">>, type |-> "Line Array / Point Source",
              low_extension |-> 50, high_extension |-> 20000,
              eq_compensation |-> <<"nearly flat", "80Hz Q=1.0 +1dB if needed">>,
              feedback_prone |-> <<250, 500, 2000, 4000>>,
              recommendations |-> [kick_hpf |-> "35Hz", vocal |-> "clear",
                                   overall |-> "balanced"]]
        ELSE IF ContainsAny(name_lower,
              { <<"m", "e", "y", "e", "r">>, <<"l", "e", "o", "p", "a", "r", "d">>, <<"l", "y", "o", "n">>, <<"m", "i", "c", "a">>, <<"u", "l", "t", "r", "a">>, <<"m", "i", "n", "a">>, <<"l", "e", "o">> })
        THEN [name |-> <<"M", "e", "y", "e", "r", " ", "S", "o", "u", "n", "d">>, type |-> "Line Array / Point Source",
              low_extension |-> 48, high_extension |-> 18000,
              recommendations |-> [kick_hpf |-> "35Hz", vocal |-> "flat",
                                   overall |-> "reference"]]
        ELSE IF ContainsAny(name_lower,
              { <<"e", "l", "e", "c", "t", "r", "o", "-", "v", "o", "i", "c", "e">>, <<"e", "v">>, <<"x", "-", "l", "i", "n", "e">>, <<"x", "l", "i", "n", "e">>, <<"x", "-", "a", "r", "r", "a", "y">>,
                <<"x", "a", "r", "r", "a", "y">>, <<"x", "l", "c">>, <<"e", "t", "x">> })
        THEN [name |-> <<"E", "l", "e", "c", "t", "r", "o", "-", "V", "o", "i", "c", "e">>, type |-> "Line Array / Point Source",
              low_extension |-> 55, high_extension |-> 19000,
              recommendations |-> [kick_hpf |-> "40Hz", vocal |-> "watch 1-2kHz",
                                   overall |-> "balanced"]]
        ELSE IF ContainsAny(name_lower,
              { <<"q", "s", "c">>, <<"k", "-", "s", "e", "r", "i", "e", "s">>, <<"k", " ", "s", "e", "r", "i", "e", "s">>, <<"k", "w">>, <<"k", "s">> })
        THEN [name |-> <<"Q", "S", "C">>, type |-> "Powered Speaker",
              low_extension |-> 55, high_extension |-> 18000,
              recommendations |-> [kick_hpf |-> "40Hz", overall |-> "standard"]]
        ELSE IF ContainsAny(name_lower, { <<"n", "e", "x", "o">>, <<"g", "e", "o">>, <<"p", "s">>, <<"i", "d">> })
        THEN [name |-> <<"N", "E", "X", "O">>, type |-> "Line Array / Point Source",
              low_extension |-> 50, high_extension |-> 19000,
              recommendations |-> [kick_hpf |-> "35Hz", overall |-> "flat"]]
        ELSE IF ContainsAny(name_lower,
              { <<"n", "e", "x", "o">>, <<"d", "x", "r">>, <<"d", "s", "r">>, <<"d", "b", "r">>, <<"c", "b", "r">>, <<"d", "z", "r">> })
        THEN [name |-> <<"Y", "A", "M", "A", "H", "A", " ", "(", "P", "A", ")">>, type |-> "Powered Speaker / Line Array",
              low_extension |-> 55, high_extension |-> 20000,
              recommendations |-> [kick_hpf |-> "40Hz", overall |-> "balanced"]]
        ELSE DefaultPaSpecs(pa_name)

search_pa_specs(c, pa_name) ==
    LET cache_key == Strip(Lower(pa_name))
    IN  IF pa_name = <<>> THEN [ret |-> None, cache |-> c]
        ELSE IF cache_key \in DOMAIN c THEN [ret |-> c[cache_key], cache |-> c]
        ELSE [ret |-> _get_known_pa_specs(pa_name), cache |-> c]

\* the names typed into the console and the loudspeaker field
MixerNames ==
    { <<>>, <<" ">>, <<"Y", "a", "m", "a", "h", "a", " ", "C", "L", "5">>, <<"c", "l", "3">>, <<"Y", "a", "m", "a", "h", "a", " ", "Q", "L", "1">>, <<"B", "e", "h", "r", "i", "n", "g", "e", "r", " ", "X", "3", "2">>,
      <<"A", "&", "H", " ", "S", "Q", "-", "6">>, <<"d", "L", "i", "v", "e", " ", "S", "7", "0", "0", "0">>, <<"M", "3", "2">> }

PaNames ==
    { <<>>, <<" ">>, <<"d", "&", "b", " ", "V", "-", "S", "e", "r", "i", "e", "s">>, <<"J", "B", "L", " ", "V", "T", "X">>, <<"L", "-", "A", "c", "o", "u", "s", "t", "i", "c", "s", " ", "K", "2">>, <<"M", "e", "y", "e", "r", " ", "L", "E", "O", "P", "A", "R", "D">>,
      <<"E", "V">>, <<"Q", "S", "C">>, <<"N", "E", "X", "O", " ", "G", "E", "O">>, <<"Y", "a", "m", "a", "h", "a", " ", "D", "X", "R">>, <<"B", "o", "s", "e">>, <<"T", "u", "r", "b", "o", "s", "o", "u", "n", "d">> }

(***************************************************************************)
(* InstrumentSeparator._parse_lineup                                       *)
(***************************************************************************)
\* the alias table, in the order the dict literal lists it
mapping ==
    <<
       [alias |-> <<"*bo", "*-", "*ka", "*ru">>, tag |-> "vocal"],
       [alias |-> <<"*vu", "*xo", "*-", "*ka", "*ru">>, tag |-> "vocal"],
       [alias |-> <<"v", "o">>, tag |-> "vocal"],
       [alias |-> <<"*ki", "*xtu", "*ku">>, tag |-> "kick"],
       [alias |-> <<"*ba", "*su", "*do", "*ra">>, tag |-> "kick"],
       [alias |-> <<"b", "d">>, tag |-> "kick"],
       [alias |-> <<"*su", "*ne", "*a">>, tag |-> "snare"],
       [alias |-> <<"s", "n">>, tag |-> "snare"],
       [alias |-> <<"s", "d">>, tag |-> "snare"],
       [alias |-> <<"*ha", "*i", "*ha", "*xtu", "*to">>, tag |-> "hihat"],
       [alias |-> <<"*ha", "*xtu", "*to">>, tag |-> "hihat"],
       [alias |-> <<"h", "h">>, tag |-> "hihat"],
       [alias |-> <<"*ta", "*mu">>, tag |-> "tom"],
       [alias |-> <<"*be", "*-", "*su">>, tag |-> "bass"],
       [alias |-> <<"*be">>, tag |-> "bass"],
       [alias |-> <<"b", "a">>, tag |-> "bass"],
       [alias |-> <<"*e", "*re", "*ki", "*gi", "*ta", "*-">>, tag |-> "e_guitar"],
       [alias |-> <<"*gi", "*ta", "*-">>, tag |-> "e_guitar"],
       [alias |-> <<"*e", "*re", "*ki">>, tag |-> "e_guitar"],
       [alias |-> <<"e", "g">>, tag |-> "e_guitar"],
       [alias |-> <<"g", "t">>, tag |-> "e_guitar"],
       [alias |-> <<"*a", "*ko", "*gi">>, tag |-> "a_guitar"],
       [alias |-> <<"*a", "*ko", "*-", "*su", "*te", "*xi", "*xtu", "*ku", "*gi", "*ta", "*-">>,
        tag |-> "a_guitar"],
       [alias |-> <<"a", "g">>, tag |-> "a_guitar"],
       [alias |-> <<"*ki", "*-", "*bo", "*-", "*do">>, tag |-> "keyboard"],
       [alias |-> <<"*ki", "*-", "*bo">>, tag |-> "keyboard"],
       [alias |-> <<"k", "b">>, tag |-> "keyboard"],
       [alias |-> <<"k", "e", "y">>, tag |-> "keyboard"],
       [alias |-> <<"*shi", "*n", "*se">>, tag |-> "synth"],
       [alias |-> <<"*shi", "*n", "*se", "*sa", "*i", "*za", "*-">>, tag |-> "synth"],
       [alias |-> <<"s", "y", "n">>, tag |-> "synth"]
    >>

\* the characters of a canonical tag (the eng_name the loop also looks for)
TagChars(tag) ==
    CASE tag = "vocal"    -> <<"v", "o", "c", "a", "l">>
      [] tag = "kick"     -> <<"k", "i", "c", "k">>
      [] tag = "snare"    -> <<"s", "n", "a", "r", "e">>
      [] tag = "hihat"    -> <<"h", "i", "h", "a", "t">>
      [] tag = "tom"      -> <<"t", "o", "m">>
      [] tag = "bass"     -> <<"b", "a", "s", "s">>
      [] tag = "e_guitar" -> <<"e", "_", "g", "u", "i", "t", "a", "r">>
      [] tag = "a_guitar" -> <<"a", "_", "g", "u", "i", "t", "a", "r">>
      [] tag = "keyboard" -> <<"k", "e", "y", "b", "o", "a", "r", "d">>
      [] tag = "synth"    -> <<"s", "y", "n", "t", "h">>

\* text.replace('\n', ',').replace(ideographic comma, ',')
ReplaceSeparators(s) ==
    [i \in 1..Len(s) |-> IF s[i] = "\n" \/ s[i] = "*," THEN "," ELSE s[i]]

\* str.split(','): the pieces between commas, empty pieces included
RECURSIVE SplitFrom(_, _, _)
SplitFrom(s, i, cur) ==
    IF i > Len(s) THEN <<cur>>
    ELSE IF s[i] = "," THEN <<cur>> \o SplitFrom(s, i + 1, <<>>)
    ELSE SplitFrom(s, i + 1, Append(cur, s[i]))

Split(s) == SplitFrom(s, 1, <<>>)

\* items = text.replace(...).replace(...).split(',')
Items(t) == Split(ReplaceSeparators(t))

\* the test of the inner loop for one table entry
EntryMatches(e, item) ==
    Contains(item, Lower(e.alias)) \/ Contains(item, TagChars(e.tag))

\* the index of the first table entry that matches the item, 0 when none does
FirstMatch(item) ==
    IF \E k \in 1..Len(mapping) : EntryMatches(mapping[k], item)
    THEN CHOOSE k \in 1..Len(mapping) :
            /\ EntryMatches(mapping[k], item)
            /\ \A j \in 1..(k - 1) : ~EntryMatches(mapping[j], item)
    ELSE 0

\* ParseItem without the `eng_name not in instruments` test
ParseItemNoDedup(acc, rawItem) ==
    LET item == Lower(Strip(rawItem))
        k == FirstMatch(item)
    IN  IF item = <<>> THEN acc
        ELSE IF k = 0 THEN acc
        ELSE Append(acc, mapping[k].tag)

\* one iteration of the outer loop: the list after the item
ParseItem(acc, rawItem) ==
    LET item == Lower(Strip(rawItem))
        k == FirstMatch(item)
    IN  IF item = <<>> THEN acc
        ELSE IF k = 0 THEN acc
        ELSE IF mapping[k].tag \in Range(acc) THEN acc
        ELSE Append(acc, mapping[k].tag)

RECURSIVE ParseItems(_, _)
ParseItems(acc, items) ==
    IF items = <<>> THEN acc
    ELSE ParseItems(ParseItem(acc, Head(items)), Tail(items))

_parse_lineup(t) == ParseItems(<<>>, Items(t))

(***************************************************************************)
(* InstrumentAnalyzer.  What the signal processing measures on a stem (its *)
(* level, crest factor and band levels) is an input of the model; the      *)
(* rules that turn the measurements into issues and recommendations are    *)
(* the code's.                                                             *)
(***************************************************************************)
\* the text of problem['problem'], by the rule that raises it, holds the
\* keyword the recommendation branches look for
ProblemHas(problem, keyword) ==
    \/ problem = "clarity is low" /\ keyword = "clarity"
    \/ problem = "boxiness is strong" /\ keyword = "boxiness"
    \/ problem = "sibilance is excessive" /\ keyword = "sibilance"

\* _detect_vocal_problems on levels given in 1/u dB (u = 1: whole decibels)
DetectVocalProblems(freq_bands, base_analysis, u) ==
    LET clarity == freq_bands.clarity
        body == freq_bands.body
        sibilance == freq_bands.sibilance
        crest == base_analysis.crest_factor
        level_vs_mix == base_analysis.level_vs_mix
        p1 == IF clarity < -30 * u
              THEN << [severity |-> IF clarity < -35 * u THEN "critical" ELSE "important",
                       category |-> "frequency balance",
                       problem |-> "clarity is low",
                       score |-> Abs(clarity + 25 * u)] >>
              ELSE <<>>
        p2 == IF body > clarity + 8 * u
              THEN << [severity |-> "important",
                       category |-> "frequency balance",
                       problem |-> "boxiness is strong",
                       score |-> body - clarity] >>
              ELSE <<>>
        p3 == IF sibilance > clarity + 5 * u
              THEN << [severity |-> "important",
                       category |-> "frequency balance",
                       problem |-> "sibilance is excessive",
                       score |-> sibilance - clarity] >>
              ELSE <<>>
        p4 == IF crest < 6 * u
              THEN << [severity |-> "critical",
                       category |-> "dynamics",
                       problem |-> "vocal is over-compressed",
                       score |-> Abs(crest - 9 * u)] >>
              ELSE IF crest > 15 * u
              THEN << [severity |-> "important",
                       category |-> "dynamics",
                       problem |-> "vocal dynamics too wide",
                       score |-> crest - 12 * u] >>
              ELSE <<>>
        p5 == IF level_vs_mix < -8 * u
              THEN << [severity |-> "important",
                       category |-> "level balance",
                       problem |-> "vocal is buried",
                       score |-> Abs(level_vs_mix + 4 * u)] >>
              ELSE IF level_vs_mix > -1 * u
              THEN << [severity |-> "important",
                       category |-> "level balance",
                       problem |-> "vocal is too loud",
                       score |-> Abs(level_vs_mix + 4 * u)] >>
              ELSE <<>>
    IN  SortByScore(p1 \o p2 \o p3 \o p4 \o p5)

_detect_vocal_problems(freq_bands, base_analysis) ==
    DetectVocalProblems(freq_bands, base_analysis, 1)

\* the steps of the compressor approaches name the console when it is a CL
_get_vocal_compressor_settings(mspecs) ==
    IF mspecs /= None /\ Contains(Get(mspecs, "name", <<>>), <<"C", "L">>)
    THEN "Yamaha CL Comp260"
    ELSE "generic compressor"

_get_vocal_pa_adjustment(pspecs) ==
    [system |-> Get(pspecs, "name", <<>>),
     system_eq |-> Get(pspecs, "eq_compensation", <<>>)]

\* the approaches of the recommendation for a clarity problem
ClarityApproaches(mspecs, pspecs) ==
    << [method |-> "EQ basic"], [method |-> "EQ + Compressor"] >>
    \o (IF mspecs /= None /\ Get(mspecs, "has_dynamic_eq", FALSE)
        THEN << [method |-> "Dynamic EQ"] >> ELSE <<>>)
    \o (IF pspecs /= None
        THEN << [method |-> "PA system adjustment",
                 steps |-> _get_vocal_pa_adjustment(pspecs)] >>
        ELSE <<>>)

BoxinessApproaches ==
    << [method |-> "Target EQ cut"], [method |-> "HPF + mid shaping"] >>

\* a sibilance recommendation that offers the de-esser on every console
UngatedSibilanceApproaches(mspecs) ==
    << [method |-> "De-Esser"], [method |-> "Manual EQ cut"],
       [method |-> "Microphone technique"] >>

\* the approaches of the recommendation for a sibilance problem
SibilanceApproaches(mspecs) ==
    (IF mspecs /= None /\ Get(mspecs, "has_de_esser", FALSE)
     THEN << [method |-> "De-Esser"] >> ELSE <<>>)
    \o << [method |-> "Manual EQ cut"], [method |-> "Microphone technique"] >>

\* the approaches of the recommendation for a dynamics problem: the crest
\* factor is looked up in freq_bands, which has no such key, so it is 10
DynamicsApproaches(freq_bands, mspecs) ==
    LET crest == Get(freq_bands, "crest_factor", 10)
    IN  IF crest < 6
        THEN << [method |-> "Compressor relaxation"] >>
        ELSE << [method |-> "Compressor setting",
                 steps |-> _get_vocal_compressor_settings(mspecs)] >>

_get_trend_note(trend) ==
    IF trend = None THEN "no note"
    ELSE IF Get(trend, "status", "stable") = "improving" THEN "improving since last time"
    ELSE IF Get(trend, "status", "stable") = "degrading" THEN "degraded since last time"
    ELSE "no note"

\* an iteration that answers an issue even when its category was answered
VocalRecommendationStepNoDedup(st, problem, freq_bands, trend, mspecs, pspecs) ==
    LET rec(title, approaches) ==
            [priority |-> problem.severity, title |-> title,
             problem_detail |-> problem.problem, approaches |-> approaches]
        with(r) == [recs |-> Append(st.recs, r), cats |-> st.cats \cup {problem.category}]
    IN  IF ProblemHas(problem.problem, "clarity")
        THEN with(rec("vocal clarity", ClarityApproaches(mspecs, pspecs)))
        ELSE IF ProblemHas(problem.problem, "boxiness")
        THEN with(rec("boxiness removal", BoxinessApproaches))
        ELSE IF ProblemHas(problem.problem, "sibilance")
        THEN with(rec("sibilance control", SibilanceApproaches(mspecs)))
        ELSE IF problem.category = "dynamics"
        THEN with(rec("dynamics optimisation", DynamicsApproaches(freq_bands, mspecs)))
        ELSE st

\* one iteration of the loop over problems[:3]: st holds the recommendations
\* so far and the categories addressed
VocalRecommendationStep(st, problem, freq_bands, trend, mspecs, pspecs) ==
    LET category == problem.category
        rec(title, approaches, withNote) ==
            LET base == [priority |-> problem.severity,
                         title |-> title,
                         problem_detail |-> problem.problem,
                         approaches |-> approaches]
            IN  IF withNote
                THEN [priority |-> base.priority, title |-> base.title,
                      problem_detail |-> base.problem_detail,
                      approaches |-> base.approaches,
                      trend_note |-> _get_trend_note(trend)]
                ELSE base
        addressed == [recs |-> st.recs, cats |-> st.cats \cup {category}]
        with(r) == [recs |-> Append(st.recs, r), cats |-> st.cats \cup {category}]
    IN  IF /\ trend /= None
           /\ category = "frequency balance"
           /\ Get(trend, "clarity_change", 0) > 2
        THEN st
        ELSE IF category \in st.cats THEN st
        ELSE IF ProblemHas(problem.problem, "clarity")
        THEN with(rec("vocal clarity", ClarityApproaches(mspecs, pspecs), TRUE))
        ELSE IF ProblemHas(problem.problem, "boxiness")
        THEN with(rec("boxiness removal", BoxinessApproaches, TRUE))
        ELSE IF ProblemHas(problem.problem, "sibilance")
        THEN with(rec("sibilance control", SibilanceApproaches(mspecs), FALSE))
        ELSE IF category = "dynamics"
        THEN with(rec("dynamics optimisation", DynamicsApproaches(freq_bands, mspecs), FALSE))
        ELSE addressed

RECURSIVE VocalRecommendationLoop(_, _, _, _, _, _)
VocalRecommendationLoop(st, problems, freq_bands, trend, mspecs, pspecs) ==
    IF problems = <<>> THEN st
    ELSE VocalRecommendationLoop(
            VocalRecommendationStep(st, Head(problems), freq_bands, trend, mspecs, pspecs),
            Tail(problems), freq_bands, trend, mspecs, pspecs)

_generate_vocal_recommendations(problems, freq_bands, trend, mspecs, pspecs) ==
    VocalRecommendationLoop([recs |-> <<>>, cats |-> {}],
                            SubSeq(problems, 1, IF Len(problems) < 3 THEN Len(problems) ELSE 3),
                            freq_bands, trend, mspecs, pspecs).recs

\* the part of the diagnosis _analyze_vocal adds
_analyze_vocal(m, base_analysis, mspecs, pspecs) ==
    LET freq_bands == m.bands
        problems == _detect_vocal_problems(freq_bands, base_analysis)
    IN  [ok |-> TRUE,
         freq_bands |-> freq_bands,
         issues |-> problems,
         recommendations |->
            _generate_vocal_recommendations(problems, freq_bands, base_analysis.trend,
                                            mspecs, pspecs)]

_get_kick_hpf_freq(pspecs) ==
    IF pspecs = None THEN 35
    ELSE LET pa_name == Lower(Get(pspecs, "name", <<>>))
             low_ext == Get(pspecs, "low_extension", 50)
         IN  IF Contains(pa_name, <<"d", "&", "b">>) \/ low_ext <= 45 THEN 35
             ELSE IF Contains(pa_name, <<"j", "b", "l">>) \/ low_ext <= 50 THEN 30
             ELSE 40

_get_pa_kick_notes(pspecs) ==
    IF pspecs = None THEN "a general PA system is assumed"
    ELSE LET notes == Get(Get(pspecs, "recommendations", <<>>), "kick_hpf", "")
         IN  IF notes /= "" THEN notes ELSE "optimised for the system"

_get_mixer_hpf_steps(mspecs, freq) ==
    IF mspecs = None THEN None
    ELSE [mixer |-> Get(mspecs, "name", <<>>), hpf |-> freq]

\* self.pa_specs.get("name", "PA") in the HPF recommendation: an attribute
\* access on None when no loudspeaker profile was looked up
KickPaHeading(pspecs) ==
    IF pspecs = None THEN [raised |-> "AttributeError"]
    ELSE [raised |-> "", heading |-> Get(pspecs, "name", <<"P", "A">>)]

\* the part of the diagnosis _analyze_kick adds, or the exception it raises
_analyze_kick(m, base_analysis, mspecs, pspecs) ==
    LET fb == m.bands
        subsonic == fb.subsonic > -45
        boxy == fb.boxiness > fb.fundamental + 5
        weak == fb.attack < fb.fundamental - 5
        hpf_freq == _get_kick_hpf_freq(pspecs)
    IN  IF subsonic /\ KickPaHeading(pspecs).raised /= ""
        THEN [ok |-> FALSE, error |-> KickPaHeading(pspecs).raised]
        ELSE [ok |-> TRUE,
              freq_bands |-> fb,
              issues |->
                 (IF subsonic
                  THEN << [severity |-> "critical", problem |-> "subsonic content"] >>
                  ELSE <<>>)
                 \o (IF boxy
                     THEN << [severity |-> "important", problem |-> "boominess"] >>
                     ELSE <<>>),
              recommendations |->
                 (IF subsonic
                  THEN << [priority |-> "critical", title |-> "HPF setting",
                           hpf |-> hpf_freq,
                           pa_heading |-> KickPaHeading(pspecs).heading,
                           pa_notes |-> _get_pa_kick_notes(pspecs),
                           mixer_specific |-> _get_mixer_hpf_steps(mspecs, hpf_freq)] >>
                  ELSE <<>>)
                 \o (IF boxy
                     THEN << [priority |-> "important", title |-> "boominess removal"] >>
                     ELSE <<>>)
                 \o (IF weak
                     THEN << [priority |-> "important", title |-> "punch"] >>
                     ELSE <<>>)]

\* analyze_instrument passes the base analysis as one argument more than
\* _analyze_snare, _analyze_bass, _analyze_hihat, _analyze_tom, _analyze_guitar
\* and _analyze_keys take: the call raises TypeError
ArityMismatch(name) ==
    name \in {"snare", "bass", "hihat", "tom", "e_guitar", "a_guitar", "keyboard", "synth"}

_find_past_analysis(past, instrument_name) ==
    LET hits == {i \in 1..Len(past) :
                    instrument_name \in DOMAIN past[i].analysis.instruments}
    IN  IF hits = {} THEN None
        ELSE past[CHOOSE i \in hits : \A j \in hits : i <= j]
                .analysis.instruments[instrument_name]

\* a trend that takes a change of exactly 2 dB for significant
_calculate_trend_inclusive(current, pastDiag) ==
    LET rms_change == current.rms_db - Get(pastDiag, "rms_db", current.rms_db)
    IN  [rms_change |-> rms_change,
         status |-> IF Abs(rms_change) >= 2
                    THEN (IF rms_change > 0 THEN "improving" ELSE "degrading")
                    ELSE "stable"]

\* current is the base analysis, which holds no freq_bands yet when the trend
\* is computed, so the trend never carries a clarity_change
_calculate_trend(current, pastDiag) ==
    LET rms_change == current.rms_db - Get(pastDiag, "rms_db", current.rms_db)
        status == IF Abs(rms_change) > 2
                  THEN (IF rms_change > 0 THEN "improving" ELSE "degrading")
                  ELSE "stable"
    IN  IF "freq_bands" \in DOMAIN pastDiag /\ "freq_bands" \in DOMAIN current
        THEN [rms_change |-> rms_change, status |-> status,
              clarity_change |-> Get(current.freq_bands, "clarity", 0)
                                 - Get(pastDiag.freq_bands, "clarity", 0)]
        ELSE [rms_change |-> rms_change, status |-> status]

\* analyze_instrument: the diagnosis of one stem, or the exception raised
analyze_instrument(name, m, overall_rms, mspecs, pspecs, past) ==
    LET base == [name |-> name,
                 rms_db |-> m.rms_db,
                 crest_factor |-> m.crest_factor,
                 level_vs_mix |-> m.rms_db - overall_rms]
        past_analysis == _find_past_analysis(past, name)
        trend == IF past_analysis /= None THEN _calculate_trend(base, past_analysis)
                 ELSE None
        analysis == [name |-> name,
                     rms_db |-> base.rms_db,
                     crest_factor |-> base.crest_factor,
                     level_vs_mix |-> base.level_vs_mix,
                     trend |-> trend]
        detail == IF name = "vocal" THEN _analyze_vocal(m, analysis, mspecs, pspecs)
                  ELSE IF name = "kick" THEN _analyze_kick(m, analysis, mspecs, pspecs)
                  ELSE [ok |-> FALSE, error |-> "TypeError"]
    IN  IF ArityMismatch(name) THEN [ok |-> FALSE, error |-> "TypeError"]
        ELSE IF ~detail.ok THEN detail
        ELSE [ok |-> TRUE,
              name |-> name,
              rms_db |-> analysis.rms_db,
              crest_factor |-> analysis.crest_factor,
              level_vs_mix |-> analysis.level_vs_mix,
              trend |-> trend,
              freq_bands |-> detail.freq_bands,
              issues |-> detail.issues,
              recommendations |-> detail.recommendations]

\* _analyze_relationships: the recommendations it appends to the diagnoses
KickBassCarveOut == [priority |-> "important", title |-> "frequency split with bass"]

VocalSpace == [priority |-> "important", title |-> "space for the vocal"]

WithRecommendation(diag, r) ==
    [k \in DOMAIN diag |->
        IF k = "recommendations" THEN Append(diag.recommendations, r) ELSE diag[k]]

_analyze_relationships(analyses) ==
    LET names == DOMAIN analyses
        kickBass ==
            /\ "kick" \in names /\ "bass" \in names
            /\ LET kick_fund == Get(analyses["kick"].freq_bands, "fundamental", -100)
                   bass_fund == Get(analyses["bass"].freq_bands, "fundamental", -100)
               IN  Abs(kick_fund - bass_fund) < 3 /\ kick_fund > -100 /\ bass_fund > -100
        vocalGuitar ==
            /\ "vocal" \in names /\ "e_guitar" \in names
            /\ Get(analyses["vocal"].freq_bands, "clarity", -100) < -30
    IN  [n \in names |->
            IF n = "kick" /\ kickBass THEN WithRecommendation(analyses[n], KickBassCarveOut)
            ELSE IF n = "e_guitar" /\ vocalGuitar
                 THEN WithRecommendation(analyses[n], VocalSpace)
            ELSE analyses[n]]

\* the loop of analyze_all over the stems, in the order of the dict
RECURSIVE AnalyzeStems(_, _, _, _, _, _, _)
AnalyzeStems(sofar, names, ms, overall_rms, mspecs, pspecs, past) ==
    IF names = <<>> THEN [ok |-> TRUE, analyses |-> sofar]
    ELSE LET n == Head(names)
             a == analyze_instrument(n, ms[n], overall_rms, mspecs, pspecs, past)
         IN  IF ~a.ok THEN [ok |-> FALSE, error |-> a.error, at |-> n]
             ELSE AnalyzeStems([k \in DOMAIN sofar \cup {n} |-> IF k = n THEN a ELSE sofar[k]],
                               Tail(names), ms, overall_rms, mspecs, pspecs, past)

\* analyze_all: the diagnoses of all stems, or the exception raised
analyze_all(names, ms, overall_rms, mspecs, pspecs, past) ==
    LET r == AnalyzeStems(<<>>, names, ms, overall_rms, mspecs, pspecs, past)
    IN  IF ~r.ok THEN r
        ELSE [ok |-> TRUE, analyses |-> _analyze_relationships(r.analyses)]

(***************************************************************************)
(* ComparisonAnalyzer                                                      *)
(***************************************************************************)
\* a _get_match_type that never reports a match
_get_match_type_strict(current_metadata, past_metadata, past_equipment) ==
    "different"

\* a _get_match_type that takes every past session for the same set-up
_get_match_type_always_exact(current_metadata, past_metadata, past_equipment) ==
    "exact_match"

_get_match_type(current_metadata, past_metadata, past_equipment) ==
    LET score ==
            (IF Abs(Get(current_metadata, "venue_capacity", 0)
                    - Get(past_metadata, "venue_capacity", 0)) < 50 THEN 30 ELSE 0)
            + (IF Get(current_metadata, "mixer", None) = Get(past_equipment, "mixer", None)
               THEN 40 ELSE 0)
            + (IF Get(current_metadata, "pa_system", None)
                  = Get(past_equipment, "pa_system", None)
               THEN 30 ELSE 0)
    IN  IF score >= 80 THEN "exact_match"
        ELSE IF score >= 50 THEN "similar"
        ELSE "different"

\* the tiers of the console families in tenths, in the order of the dict
mixer_tiers ==
    << [key |-> <<"c", "l">>, value |-> 10], [key |-> <<"q", "l">>, value |-> 8],
       [key |-> <<"s", "q">>, value |-> 7], [key |-> <<"x", "3", "2">>, value |-> 5] >>

\* not x, for a console name
Falsy(name) == name = <<>> \/ name = None

\* the loop over mixer_tiers.items(): a later key that occurs in the name
\* overwrites the tier an earlier one set
RECURSIVE MixerTierLoop(_, _, _)
MixerTierLoop(tier, name, tiers) ==
    IF tiers = <<>> THEN tier
    ELSE MixerTierLoop(IF Contains(Lower(name), Head(tiers).key)
                       THEN Head(tiers).value ELSE tier,
                       name, Tail(tiers))

\* a correction that is always zero
_no_mixer_correction(current_mixer, past_mixer) == 0

\* _get_mixer_correction, in tenths of a dB
_get_mixer_correction(current_mixer, past_mixer) ==
    IF Falsy(current_mixer) \/ Falsy(past_mixer) THEN 0
    ELSE IF current_mixer = past_mixer THEN 0
    ELSE (MixerTierLoop(5, current_mixer, mixer_tiers)
          - MixerTierLoop(5, past_mixer, mixer_tiers)) * 2

\* metrics['rms'] of _compare_with_entry, in tenths of a dB
RmsMetric(current, current_metadata, past_entry) ==
    LET current_rms == 10 * Get(current, "rms_db", -100)
        past_rms == 10 * Get(past_entry.analysis, "rms_db", -100)
        rms_correction == _get_mixer_correction(Get(current_metadata, "mixer", None),
                                                Get(past_entry.equipment, "mixer", None))
        past_rms_corrected == past_rms + rms_correction
    IN  [current |-> current_rms,
         past_raw |-> past_rms,
         past_corrected |-> past_rms_corrected,
         difference |-> current_rms - past_rms_corrected,
         correction_applied |-> rms_correction]

\* compare_all: the rms metric of the comparison with each past entry
RmsMetrics(current, current_metadata, past_entries) ==
    [i \in 1..Len(past_entries) |-> RmsMetric(current, current_metadata, past_entries[i])]

\* loudspeaker corrections that are always zero
_no_pa_corrections(current_pa, past_pa) == <<0, 0, 0, 0, 0, 0, 0>>

\* _get_pa_corrections: the correction of each of the seven bands
_get_pa_corrections(current_pa, past_pa) ==
    IF Falsy(current_pa) \/ Falsy(past_pa) \/ current_pa = past_pa
    THEN <<0, 0, 0, 0, 0, 0, 0>>
    ELSE LET current_brightness == IF Contains(Lower(current_pa), <<"j", "b", "l">>) THEN 2 ELSE 0
             past_brightness == IF Contains(Lower(past_pa), <<"j", "b", "l">>) THEN 2 ELSE 0
             brightness_diff == current_brightness - past_brightness
         IN  <<0, 0, 0, 0, 0, -((brightness_diff * 3) \div 2), -(brightness_diff * 2)>>

band_names ==
    <<"Sub Bass", "Bass", "Low-Mid", "Mid", "High-Mid", "Presence", "Brilliance">>

\* the band notes of _generate_insights from band i on
RECURSIVE BandInsights(_, _)
BandInsights(band_diffs, i) ==
    IF i > Len(band_diffs) THEN <<>>
    ELSE (IF Abs(band_diffs[i]) > 6
          THEN << [type |-> "change", severity |-> "info", about |-> band_names[i]] >>
          ELSE <<>>)
         \o BandInsights(band_diffs, i + 1)

\* _generate_insights; the rms difference is in tenths of a dB, about is what
\* the message speaks of
_generate_insights(comparison) ==
    LET match_type == comparison.match_type
        rms_diff == comparison.metrics.rms.difference
        correction == Get(comparison.metrics.rms, "correction_applied", 0)
        width_diff == comparison.metrics.stereo_width.difference
    IN  (IF match_type = "exact_match"
         THEN (IF rms_diff > 20
               THEN << [type |-> "improvement", severity |-> "good", about |-> "rms"] >>
               ELSE IF rms_diff < -20
               THEN << [type |-> "regression", severity |-> "warning", about |-> "rms"] >>
               ELSE << [type |-> "stable", severity |-> "info", about |-> "rms"] >>)
         ELSE IF correction /= 0
         THEN << [type |-> "info", severity |-> "info", about |-> "rms"] >>
         ELSE <<>>)
        \o (IF Abs(width_diff) > 10
            THEN << [type |-> "change", severity |-> "info", about |-> "stereo_width"] >>
            ELSE <<>>)
        \o (IF "frequency_balance" \in DOMAIN comparison.metrics
            THEN BandInsights(comparison.metrics.frequency_balance.differences, 1)
            ELSE <<>>)

\* _compare_with_entry: the comparison of the current results with one entry
_compare_with_entry(cur, current_metadata, past_entry) ==
    LET past_analysis == past_entry.analysis
        rms == RmsMetric(cur, current_metadata, past_entry)
        current_width == Get(cur, "stereo_width", 0)
        past_width == Get(past_analysis, "stereo_width", 0)
        width == [current |-> current_width, past |-> past_width,
                  difference |-> current_width - past_width]
        current_bands == Get(cur, "band_energies", <<>>)
        past_bands == Get(past_analysis, "band_energies", <<>>)
        pa_corrections == _get_pa_corrections(Get(current_metadata, "pa_system", None),
                                              Get(past_entry.equipment, "pa_system", None))
        band_diffs ==
            [i \in 1..Len(current_bands) |->
                current_bands[i]
                - (past_bands[i] + (IF i <= Len(pa_corrections) THEN pa_corrections[i] ELSE 0))]
        metrics ==
            IF Len(current_bands) = Len(past_bands) /\ Len(current_bands) > 0
            THEN [rms |-> rms, stereo_width |-> width,
                  frequency_balance |->
                     [differences |-> band_diffs,
                      pa_correction_applied |->
                         \E i \in DOMAIN pa_corrections : pa_corrections[i] /= 0]]
            ELSE [rms |-> rms, stereo_width |-> width]
        comparison ==
            [match_type |-> _get_match_type(current_metadata, past_entry.metadata,
                                            past_entry.equipment),
             metrics |-> metrics]
    IN  [match_type |-> comparison.match_type,
         metrics |-> metrics,
         insights |-> _generate_insights(comparison)]

compare_all(cur, current_metadata, past_entries) ==
    [i \in 1..Len(past_entries) |->
        _compare_with_entry(cur, current_metadata, past_entries[i])]

\* compare_all: the match_type of the comparison with each past entry
MatchTypes(current_metadata, past_entries) ==
    [i \in 1..Len(past_entries) |->
        _get_match_type(current_metadata, past_entries[i].metadata,
                        past_entries[i].equipment)]

(***************************************************************************)
(* The instrumentation texts the parser is run on                          *)
(***************************************************************************)
MaxItems == 3

Aliases == {mapping[k].alias : k \in 1..Len(mapping)}

\* tokens no alias matches, tokens in upper case or padded with blanks,
\* empty tokens, and tokens that hold a canonical tag or an alias inside
OtherTokens ==
    { <<>>,
      <<" ">>,
      <<"d", "r", "u", "m", "s">>,
      <<"*do", "*ra", "*mu">>,
      <<"*pi", "*a", "*no">>,
      <<" ", "V", "O", " ">>,
      <<"B", "D">>,
      <<"l", "e", "a", "d", " ", "v", "o", "c", "a", "l">>,
      <<"g", "u", "i", "t", "a", "r">>,
      <<"*ri", "*-", "*do", "*gi", "*ta", "*-">> }

\* the tokens of the texts with more than one item
ListTokens ==
    { <<"*bo", "*-", "*ka", "*ru">>,
      <<" ", "V", "O", " ">>,
      <<"*ki", "*xtu", "*ku">>,
      <<"d", "r", "u", "m", "s">> }

Separators == {",", "*,", "\n"}

\* the example of the specification: vocal, kick, kick, bass
ExampleText ==
    <<"*bo", "*-", "*ka", "*ru", "*,", "*ki", "*xtu", "*ku", "*,",
      "*ki", "*xtu", "*ku", "*,", "*be", "*-", "*su">>

RECURSIVE TextsOf(_)
TextsOf(n) ==
    IF n = 1 THEN ListTokens
    ELSE {t \o <<sep>> \o tok : t \in TextsOf(n - 1), sep \in Separators, tok \in ListTokens}

LineupTexts ==
    Aliases \cup OtherTokens \cup {ExampleText} \cup UNION {TextsOf(n) : n \in 2..MaxItems}

(***************************************************************************)
(* The stems and measurements the diagnosis is run on                      *)
(***************************************************************************)
VocalMeasurements ==
    { [rms_db |-> r, crest_factor |-> c,
       bands |-> [clarity |-> cl, body |-> b, sibilance |-> sb]] :
         r \in {-28, -22, -18}, c \in {5, 10, 16},
         cl \in {-38, -32, -26}, b \in {-34, -22}, sb \in {-36, -22} }

KickMeasurements ==
    { [rms_db |-> -20, crest_factor |-> 12,
       bands |-> [subsonic |-> ss, fundamental |-> -30, attack |-> a, boxiness |-> bx]] :
         ss \in {-50, -40}, a \in {-20, -38}, bx \in {-30, -20} }

OtherMeasurements ==
    { [rms_db |-> -24, crest_factor |-> 10, bands |-> [fundamental |-> -30]] }

MeasurementsOf(name) ==
    IF name = "vocal" THEN VocalMeasurements
    ELSE IF name = "kick" THEN KickMeasurements
    ELSE OtherMeasurements

StemLists ==
    { <<"vocal">>, <<"kick">>, <<"kick", "bass">>,
      <<"vocal", "e_guitar">>, <<"snare", "vocal">> }

MixLevels == {-18}

DiagMixerNames ==
    { <<>>, <<"Y", "a", "m", "a", "h", "a", " ", "C", "L", "5">>, <<"Y", "a", "m", "a", "h", "a", " ", "Q", "L", "1">>, <<"B", "e", "h", "r", "i", "n", "g", "e", "r", " ", "X", "3", "2">>, <<"d", "L", "i", "v", "e", " ", "S", "7", "0", "0", "0">> }

DiagPaNames == { <<>>, <<"d", "&", "b", " ", "V", "-", "S", "e", "r", "i", "e", "s">>, <<"B", "o", "s", "e">> }

(***************************************************************************)
(* The sessions the history is filled with and searched for                *)
(***************************************************************************)
MaxHistory == 3

MaxLimit == 3

\* the capacity slider moves in steps of 50
Capacities == {100, 150}

SessionMetadata ==
    { [venue_capacity |-> c, mixer |-> m, pa_system |-> p] :
         c \in Capacities, m \in { <<"Y", "a", "m", "a", "h", "a", " ", "C", "L", "5">>, <<"B", "e", "h", "r", "i", "n", "g", "e", "r", " ", "X", "3", "2">> },
         p \in { <<"d", "&", "b", " ", "V", "-", "S", "e", "r", "i", "e", "s">>, <<"B", "o", "s", "e">> } }
    \cup { [venue_capacity |-> 200, mixer |-> <<>>, pa_system |-> <<>>],
           [venue_capacity |-> 150, mixer |-> <<"Y", "a", "m", "a", "h", "a", " ", "Q", "L", "1">>, pa_system |-> <<"d", "&", "b", " ", "V", "-", "S", "e", "r", "i", "e", "s">>],
           [venue_capacity |-> 150, mixer |-> <<"A", "&", "H", " ", "S", "Q", "-", "6">>, pa_system |-> <<"B", "o", "s", "e">>] }

CurrentMetadata ==
    { [venue_capacity |-> 150, mixer |-> <<"Y", "a", "m", "a", "h", "a", " ", "C", "L", "5">>, pa_system |-> <<"d", "&", "b", " ", "V", "-", "S", "e", "r", "i", "e", "s">>],
      [venue_capacity |-> 200, mixer |-> <<>>, pa_system |-> <<>>] }

V2Results ==
    [rms_db |-> -20, peak_db |-> -3, stereo_width |-> 40, crest_factor |-> 17,
     correlation |-> 1, dynamic_range |-> 12,
     band_energies |-> <<-30, -25, -22, -24, -28, -33, -40>>,
     avg_onset |-> 2, max_onset |-> 9, onset_density |-> 3, sub_bass_ratio |-> -5]

\* the results of the current request that compare_all is given
CurrentResults == [V2Results EXCEPT !.rms_db = -18]

(***************************************************************************)
(* The history files the diagnosis is run against: the file is read as it  *)
(* is found, so next to the entries add_entry writes it may hold entries   *)
(* that carry instrument diagnoses                                         *)
(***************************************************************************)
WithDiagnoses(entry, diags) ==
    [entry EXCEPT !.analysis = [entry.analysis EXCEPT !.instruments = diags]]

ArchivedEntry(second, mixer, pa, vocal_rms) ==
    WithDiagnoses(
        NewEntry(V2Results, [venue_capacity |-> 150, mixer |-> mixer, pa_system |-> pa],
                 [second |-> second, micro |-> 0]),
        [vocal |-> [rms_db |-> vocal_rms, freq_bands |-> [clarity |-> -45]]])

DiagHistories ==
    { <<>>,
      << NewEntry(V2Results, [venue_capacity |-> 150, mixer |-> <<>>, pa_system |-> <<>>],
                  [second |-> 1, micro |-> 0]) >>,
      << ArchivedEntry(1, <<"Y", "a", "m", "a", "h", "a", " ", "C", "L", "5">>, <<"B", "o", "s", "e">>, -30),
         ArchivedEntry(2, <<"B", "e", "h", "r", "i", "n", "g", "e", "r", " ", "X", "3", "2">>, <<"d", "&", "b", " ", "V", "-", "S", "e", "r", "i", "e", "s">>, -19) >>,
      << ArchivedEntry(1, <<"Y", "a", "m", "a", "h", "a", " ", "Q", "L", "1">>, <<>>, -26) >> }

(***************************************************************************)
(* The sessions that share the history file                                *)
(***************************************************************************)
Sessions == {1, 2}

MaxClock == 2

\* the metadata of the request of session s
RequestMetadata(s) ==
    [analysis_name |-> s, venue_capacity |-> 150,
     mixer |-> <<"Y", "a", "m", "a", "h", "a", " ", "C", "L", "5">>, pa_system |-> <<"B", "o", "s", "e">>]

\* what an earlier run left in the file
EarlierHistories ==
    { <<>>,
      << NewEntry(V2Results, [analysis_name |-> 0, venue_capacity |-> 100,
                              mixer |-> <<>>, pa_system |-> <<>>],
                  [second |-> 0, micro |-> 0]) >> }

(***************************************************************************)
(* The requests the pipeline of main() is run on                           *)
(***************************************************************************)
\* the stages of a request before the history is written
Stages == {"load", "mix", "separate", "diagnose", "compare"}

\* the stage at which librosa, scipy or matplotlib raises, if any
Faults == {"none", "load", "mix", "separate", "compare"}

RunTexts ==
    { <<"*bo", "*-", "*ka", "*ru">>, <<"*ki", "*xtu", "*ku">>,
      <<"*su", "*ne", "*a">>, <<"d", "r", "u", "m", "s">> }

RunMixerNames == { <<>>, <<"Y", "a", "m", "a", "h", "a", " ", "C", "L", "5">> }

RunPaNames == { <<>>, <<"B", "o", "s", "e">> }

RunMeasurementsOf(name) ==
    IF name = "vocal"
    THEN { [rms_db |-> -28, crest_factor |-> 5,
            bands |-> [clarity |-> -32, body |-> -34, sibilance |-> -22]] }
    ELSE IF name = "kick"
    THEN { [rms_db |-> -20, crest_factor |-> 12,
            bands |-> [subsonic |-> ss, fundamental |-> -30, attack |-> -20,
                       boxiness |-> -30]] : ss \in {-50, -40} }
    ELSE OtherMeasurements

(***************************************************************************)
(* The vocal measurements the issue rules are run on, in steps of a         *)
(* fraction of a decibel                                                   *)
(***************************************************************************)
StepsPerDb == 2

FineVocalMeasurements ==
    { [crest_factor |-> c, level_vs_mix |-> l,
       bands |-> [clarity |-> cl, body |-> b, sibilance |-> sb]] :
         c \in {5 * StepsPerDb, 5 * StepsPerDb + 1, 10 * StepsPerDb, 16 * StepsPerDb},
         l \in {-8 * StepsPerDb - 1, -4 * StepsPerDb, 0},
         cl \in {-38 * StepsPerDb, -30 * StepsPerDb - 1, -30 * StepsPerDb, -26 * StepsPerDb},
         b \in {-34 * StepsPerDb, -22 * StepsPerDb},
         sb \in {-36 * StepsPerDb, -25 * StepsPerDb} }

(***************************************************************************)
(* The finished diagnoses _analyze_relationships is run on                  *)
(***************************************************************************)
RelatedTags == {"kick", "bass", "vocal", "e_guitar"}

\* a diagnosis as analyze_instrument leaves it: the fields the relationship
\* rules read and the recommendations made so far
DiagnosesOf(tag) ==
    IF tag = "kick"
    THEN { [name |-> tag, freq_bands |-> [fundamental |-> f], recommendations |-> r] :
              f \in {-30, -28},
              r \in { <<>>, <<[priority |-> "important", title |-> "high-pass filter"]>> } }
    ELSE IF tag = "bass"
    THEN { [name |-> tag, freq_bands |-> [fundamental |-> f], recommendations |-> <<>>] :
              f \in {-33, -31, -30, -27} }
    ELSE IF tag = "vocal"
    THEN { [name |-> tag, freq_bands |-> [clarity |-> c], recommendations |-> <<>>] :
              c \in {-35, -30, -26} }
    ELSE { [name |-> tag, freq_bands |-> [presence |-> -28], recommendations |-> <<>>] }

DiagnosedLineups ==
    { <<"kick", "bass">>, <<"vocal", "e_guitar">>, <<"kick", "vocal">>,
      <<"kick", "bass", "vocal", "e_guitar">> }

(***************************************************************************)
(* The parts of the state a specification leaves alone                     *)
(***************************************************************************)
ParseIdle ==
    /\ text = <<>>
    /\ instruments = <<>>
    /\ parsed = FALSE

EquipIdle ==
    /\ mixer_name = <<>>
    /\ pa_system = <<>>
    /\ mixer_specs = None
    /\ pa_specs = None
    /\ cache = <<>>
    /\ searched = {}

DiagIdle ==
    /\ stems = <<>>
    /\ stem_m = <<>>
    /\ v2_rms_db = 0
    /\ past_analyses = <<>>
    /\ inst_analyses = None
    /\ phase = "idle"

StoreIdle ==
    /\ history = <<>>
    /\ file = Saved(<<>>)
    /\ clock = 0

SimIdle ==
    /\ metadata = None
    /\ limit = 0
    /\ similar_entries = None
    /\ match_types = None
    /\ v2_results = None

DbIdle ==
    /\ sess = <<>>
    /\ before = <<>>

RunIdle ==
    /\ fault = "none"
    /\ done = {}
    /\ add_calls = 0

UiIdle ==
    /\ session_state = None
    /\ shown = "nothing"
    /\ user_analyses = <<>>

(***************************************************************************)
(* Specification of the parser: any text, then _parse_lineup               *)
(***************************************************************************)
ParseInit ==
    /\ text \in LineupTexts
    /\ instruments = <<>>
    /\ parsed = FALSE
    /\ EquipIdle
    /\ DiagIdle
    /\ StoreIdle
    /\ SimIdle
    /\ DbIdle
    /\ RunIdle
    /\ UiIdle

ParseLineup ==
    /\ ~parsed
    /\ instruments' = _parse_lineup(text)
    /\ parsed' = TRUE
    /\ UNCHANGED <<text, exceptParse>>

ParseNext == ParseLineup

SpecParse == ParseInit /\ [][ParseNext]_vars

(***************************************************************************)
(* Claims about _parse_lineup                                              *)
(***************************************************************************)
\* the tag the table gives each item of the text ("" for an item that is
\* empty once stripped, or that no entry matches)
ItemTags(t) ==
    LET items == Items(t)
    IN  [i \in 1..Len(items) |->
            LET item == Lower(Strip(items[i]))
                k == FirstMatch(item)
            IN  IF item = <<>> \/ k = 0 THEN "" ELSE mapping[k].tag]

FirstItemOf(tags, tag) ==
    CHOOSE i \in 1..Len(tags) :
        /\ tags[i] = tag
        /\ \A j \in 1..(i - 1) : tags[j] /= tag

C5_AliasParsesToItsTag ==
    parsed =>
        \A k \in 1..Len(mapping) :
            text = mapping[k].alias => instruments = <<mapping[k].tag>>

(***************************************************************************)
(* Specification of the profile lookup: any two names, then                *)
(* search_mixer_specs and search_pa_specs on one searcher                  *)
(***************************************************************************)
EquipInit ==
    /\ mixer_name \in MixerNames
    /\ pa_system \in PaNames
    /\ mixer_specs = None
    /\ pa_specs = None
    /\ cache = <<>>
    /\ searched = {}
    /\ ParseIdle
    /\ DiagIdle
    /\ StoreIdle
    /\ SimIdle
    /\ DbIdle
    /\ RunIdle
    /\ UiIdle

SearchMixerSpecs ==
    /\ "mixer" \notin searched
    /\ LET r == search_mixer_specs(cache, mixer_name)
       IN  /\ mixer_specs' = r.ret
           /\ cache' = r.cache
    /\ searched' = searched \cup {"mixer"}
    /\ UNCHANGED <<mixer_name, pa_system, pa_specs, exceptEquip>>

SearchPaSpecs ==
    /\ "pa" \notin searched
    /\ LET r == search_pa_specs(cache, pa_system)
       IN  /\ pa_specs' = r.ret
           /\ cache' = r.cache
    /\ searched' = searched \cup {"pa"}
    /\ UNCHANGED <<mixer_name, pa_system, mixer_specs, exceptEquip>>

EquipNext == SearchMixerSpecs \/ SearchPaSpecs

SpecEquip == EquipInit /\ [][EquipNext]_vars

(***************************************************************************)
(* Claims about the profile lookup                                         *)
(***************************************************************************)
IsProfile(p) == p /= None /\ "name" \in DOMAIN p

\* the name holds none of the keys of a known console family
UnknownMixer(n) ==
    ~ContainsAny(Upper(n), { <<"C", "L", "5">>, <<"C", "L", "3">>, <<"C", "L", "1">>, <<"Q", "L", "5">>, <<"Q", "L", "1">>, <<"X", "3", "2">>, <<"S", "Q">> })

\* the names of the pool that hold no keyword of a known loudspeaker family
UnknownPaNames == { <<" ">>, <<"B", "o", "s", "e">>, <<"T", "u", "r", "b", "o", "s", "o", "u", "n", "d">> }

\* C9 as stated: for every name, the empty one included, both lookups
\* return a profile record, never an absent value.
C9_EveryNameYieldsProfile ==
    /\ "mixer" \in searched => IsProfile(mixer_specs)
    /\ "pa" \in searched => IsProfile(pa_specs)

\* C9 as amended: for every non-empty name both lookups return a profile
\* record; a name of no known family yields the generic default profile
\* that carries the name as typed.
C9_NonEmptyNameYieldsProfile ==
    /\ ("mixer" \in searched /\ mixer_name /= <<>>) =>
          /\ IsProfile(mixer_specs)
          /\ UnknownMixer(mixer_name) =>
                /\ mixer_specs.name = mixer_name
                /\ "has_de_esser" \notin DOMAIN mixer_specs
                /\ mixer_specs.eq_bands = 4
    /\ ("pa" \in searched /\ pa_system /= <<>>) =>
          /\ IsProfile(pa_specs)
          /\ pa_system \in UnknownPaNames =>
                /\ pa_specs.name = pa_system
                /\ pa_specs.type = "Unknown"
                /\ pa_specs.low_extension = 50

C9_Witness ==
    /\ searched = {"mixer", "pa"}
    /\ mixer_name = <<"d", "L", "i", "v", "e", " ", "S", "7", "0", "0", "0">>
    /\ pa_system = <<"B", "o", "s", "e">>
    /\ mixer_specs.name = <<"d", "L", "i", "v", "e", " ", "S", "7", "0", "0", "0">>
    /\ pa_specs.type = "Unknown"

(***************************************************************************)
(* Specification of the diagnosis: the profile lookups of Phase 1 of       *)
(* main(), then InstrumentAnalyzer.analyze_all on the separated stems      *)
(***************************************************************************)
DiagInit ==
    /\ mixer_name \in DiagMixerNames
    /\ pa_system \in DiagPaNames
    /\ mixer_specs = None
    /\ pa_specs = None
    /\ cache = <<>>
    /\ searched = {}
    /\ stems \in StemLists
    /\ stem_m \in [Range(stems) -> UNION {MeasurementsOf(n) : n \in Range(stems)}]
    /\ \A n \in Range(stems) : stem_m[n] \in MeasurementsOf(n)
    /\ v2_rms_db \in MixLevels
    /\ past_analyses = <<>>
    /\ inst_analyses = None
    /\ phase = "lookup"
    /\ ParseIdle
    /\ history \in DiagHistories
    /\ file = Saved(history)
    /\ clock = 3
    /\ metadata = [venue_capacity |-> 150, mixer |-> mixer_name, pa_system |-> pa_system]
    /\ limit = 0
    /\ similar_entries = None
    /\ match_types = None
    /\ v2_results = None
    /\ DbIdle
    /\ RunIdle
    /\ UiIdle

\* main(): a profile is looked up only for a name that was typed in
LookupProfiles ==
    /\ phase = "lookup"
    /\ LET rm == search_mixer_specs(cache, mixer_name)
           cm == IF mixer_name /= <<>> THEN rm.cache ELSE cache
           rp == search_pa_specs(cm, pa_system)
       IN  /\ mixer_specs' = IF mixer_name /= <<>> THEN rm.ret ELSE None
           /\ pa_specs' = IF pa_system /= <<>> THEN rp.ret ELSE None
           /\ cache' = IF pa_system /= <<>> THEN rp.cache ELSE cm
    /\ searched' = {"mixer" : n \in {mixer_name} \ {<<>>}}
                   \cup {"pa" : n \in {pa_system} \ {<<>>}}
    /\ phase' = "diagnose"
    /\ UNCHANGED <<mixer_name, pa_system, exceptDiag,
                   stems, stem_m, v2_rms_db, past_analyses, inst_analyses>>

\* Phase 3: find_similar(limit=5) fetches the past sessions, then analyze_all
AnalyzeAll ==
    /\ phase = "diagnose"
    /\ past_analyses' = find_similar(history, metadata, 5)
    /\ inst_analyses' = analyze_all(stems, stem_m, v2_rms_db, mixer_specs, pa_specs,
                                    past_analyses')
    /\ phase' = "diagnosed"
    /\ UNCHANGED <<exceptDiag, equipVars, stems, stem_m, v2_rms_db>>

DiagNext == LookupProfiles \/ AnalyzeAll

SpecDiag == DiagInit /\ [][DiagNext]_vars

(***************************************************************************)
(* Claims about the diagnosis                                              *)
(***************************************************************************)
\* C8: with no console profile and/or no loudspeaker profile, analyze_all
\* returns a diagnosis and raises no exception for the want of the profile,
\* a kick stem with subsonic content above its threshold included.
C8_NoProfileNeverFails ==
    (phase = "diagnosed" /\ (mixer_specs = None \/ pa_specs = None)) =>
        (inst_analyses.ok \/ inst_analyses.error /= "AttributeError")

\* the recommendations of the vocal diagnosis analyze_all returned
VocalRecommendations ==
    IF phase = "diagnosed" /\ inst_analyses.ok /\ "vocal" \in DOMAIN inst_analyses.analyses
    THEN inst_analyses.analyses["vocal"].recommendations
    ELSE <<>>

Methods(r) == [i \in 1..Len(r.approaches) |-> r.approaches[i].method]

ConsoleReports(flag) == mixer_specs /= None /\ Get(mixer_specs, flag, FALSE)

\* C10: in every vocal recommendation the de-esser approach appears only if
\* the console profile reports has_de_esser (otherwise a sibilance
\* recommendation holds just the manual EQ cut and the microphone technique),
\* the dynamic-EQ approach only if it reports has_dynamic_eq, and the
\* PA-system approach only if a loudspeaker profile is present.
C10_GatedApproaches ==
    \A i \in 1..Len(VocalRecommendations) :
        LET r == VocalRecommendations[i]
            methods == Methods(r)
        IN  /\ "De-Esser" \in Range(methods) => ConsoleReports("has_de_esser")
            /\ (r.title = "sibilance control" /\ ~ConsoleReports("has_de_esser")) =>
                  methods = <<"Manual EQ cut", "Microphone technique">>
            /\ "Dynamic EQ" \in Range(methods) => ConsoleReports("has_dynamic_eq")
            /\ "PA system adjustment" \in Range(methods) => pa_specs /= None

C10_Witness ==
    /\ mixer_name = <<"B", "e", "h", "r", "i", "n", "g", "e", "r", " ", "X", "3", "2">>
    /\ mixer_specs /= None
    /\ mixer_specs.has_de_esser = FALSE
    /\ \E i \in 1..Len(VocalRecommendations) :
          /\ VocalRecommendations[i].title = "sibilance control"
          /\ Methods(VocalRecommendations[i]) = <<"Manual EQ cut", "Microphone technique">>

(***************************************************************************)
(* Specification of the search for past sessions: earlier requests fill    *)
(* the history with add_entry, then find_similar and compare_all run for   *)
(* the current request                                                     *)
(***************************************************************************)
SimInit ==
    /\ history = <<>>
    /\ file = Saved(<<>>)
    /\ clock = 0
    /\ metadata \in CurrentMetadata
    /\ limit = 0
    /\ similar_entries = None
    /\ match_types = None
    /\ v2_results = CurrentResults
    /\ ParseIdle
    /\ EquipIdle
    /\ DiagIdle
    /\ DbIdle
    /\ RunIdle
    /\ UiIdle

\* an earlier request ends: add_entry appends its entry and saves
AddEntry ==
    /\ similar_entries = None
    /\ Len(history) < MaxHistory
    /\ \E meta \in SessionMetadata :
          history' = add_entry(history, V2Results, meta, [second |-> clock + 1, micro |-> 0])
    /\ file' = save(history')
    /\ clock' = clock + 1
    /\ UNCHANGED <<simVars, exceptSim>>

FindSimilar ==
    /\ similar_entries = None
    /\ \E lim \in 0..MaxLimit :
          /\ limit' = lim
          /\ similar_entries' = [entries |-> find_similar(history, metadata, lim)]
    /\ UNCHANGED <<metadata, match_types, v2_results, storeVars, exceptSim>>

CompareAll ==
    /\ similar_entries /= None
    /\ match_types = None
    /\ match_types' = [types |-> MatchTypes(metadata, similar_entries.entries),
                       rms |-> RmsMetrics(v2_results, metadata, similar_entries.entries),
                       comparisons |-> compare_all(v2_results, metadata,
                                                   similar_entries.entries)]
    /\ UNCHANGED <<metadata, limit, similar_entries, v2_results, storeVars, exceptSim>>

SimNext == AddEntry \/ FindSimilar \/ CompareAll

SpecSimilar == SimInit /\ [][SimNext]_vars

(***************************************************************************)
(* Claims about the search for past sessions                               *)
(***************************************************************************)
CapacityClose(e) == Abs(metadata.venue_capacity - e.metadata.venue_capacity) < 50

SameConsole(e) == metadata.mixer = e.equipment.mixer

SamePa(e) == metadata.pa_system = e.equipment.pa_system

\* 30 for a close capacity, 40 for the same console, 30 for the same PA
ExpectedScore(e) ==
    (IF CapacityClose(e) THEN 30 ELSE 0) + (IF SameConsole(e) THEN 40 ELSE 0)
    + (IF SamePa(e) THEN 30 ELSE 0)

ExpectedMatchType(e) ==
    IF ExpectedScore(e) >= 80 THEN "exact_match"
    ELSE IF ExpectedScore(e) >= 50 THEN "similar"
    ELSE "different"

\* C6: the score of every entry of the history is 30 for a capacity closer
\* than 50, plus 40 for an equal console name, plus 30 for an equal PA name;
\* its match_type is exact_match from 80, similar from 50, different below;
\* an entry matching on all three scores 100 and is exact_match, and an entry
\* matching on none scores 0 and is not returned by find_similar.
C6_MatchScoreAndType ==
    /\ \A i \in 1..Len(history) :
          LET e == history[i]
          IN  /\ SimilarityScore(metadata, e) = ExpectedScore(e)
              /\ _get_match_type(metadata, e.metadata, e.equipment) = ExpectedMatchType(e)
              /\ (CapacityClose(e) /\ SameConsole(e) /\ SamePa(e)) =>
                    /\ SimilarityScore(metadata, e) = 100
                    /\ _get_match_type(metadata, e.metadata, e.equipment) = "exact_match"
              /\ (~CapacityClose(e) /\ ~SameConsole(e) /\ ~SamePa(e)) =>
                    /\ SimilarityScore(metadata, e) = 0
                    /\ similar_entries /= None => e \notin Range(similar_entries.entries)
    /\ match_types /= None =>
          \A k \in 1..Len(similar_entries.entries) :
              match_types.types[k] = ExpectedMatchType(similar_entries.entries[k])

C6_Witness ==
    /\ match_types /= None
    /\ Len(history) = 3
    /\ \E i, j \in 1..Len(history) :
          /\ ExpectedScore(history[i]) = 100
          /\ ExpectedScore(history[j]) = 0
          /\ history[i] \in Range(similar_entries.entries)
          /\ history[j] \notin Range(similar_entries.entries)
    /\ \E k \in 1..Len(match_types.types) : match_types.types[k] = "exact_match"
    /\ \E k \in 1..Len(match_types.types) : match_types.types[k] = "similar"

\* C7: find_similar returns at most limit entries, each of a score above 20,
\* in non-increasing order of score; no entry left out scores more than a
\* returned one, and an entry above 20 is left out only when limit entries
\* are returned.
C7_TopScoringAboveThreshold ==
    similar_entries /= None =>
        LET found == similar_entries.entries
            left == {i \in 1..Len(history) : history[i] \notin Range(found)}
        IN  /\ Len(found) <= limit
            /\ Range(found) \subseteq Range(history)
            /\ \A k \in 1..Len(found) : ExpectedScore(found[k]) > 20
            /\ \A k \in 1..(Len(found) - 1) :
                  ExpectedScore(found[k]) >= ExpectedScore(found[k + 1])
            /\ \A i \in left : \A k \in 1..Len(found) :
                  ExpectedScore(history[i]) <= ExpectedScore(found[k])
            /\ \A i \in left : ExpectedScore(history[i]) > 20 => Len(found) = limit

C7_Witness ==
    /\ similar_entries /= None
    /\ limit = 2
    /\ Len(history) = 3
    /\ Len(similar_entries.entries) = 1
    /\ \E i, j \in 1..Len(history) :
          /\ ExpectedScore(history[i]) = 0
          /\ ExpectedScore(history[j]) = 0
          /\ i /= j
    /\ \E i \in 1..Len(history) :
          /\ ExpectedScore(history[i]) \in {30, 40}
          /\ history[i] \in Range(similar_entries.entries)

(***************************************************************************)
(* Specification of the shared history file: each session constructs an    *)
(* AudioDatabase and calls add_entry once; the steps of the sessions       *)
(* interleave, and a session may die while save is writing                 *)
(***************************************************************************)
DbInit ==
    /\ before \in EarlierHistories
    /\ file = Saved(before)
    /\ clock = 1
    /\ history = <<>>
    /\ sess = [s \in Sessions |-> [pc |-> "start", history |-> <<>>, entry |-> None]]
    /\ ParseIdle
    /\ EquipIdle
    /\ DiagIdle
    /\ SimIdle
    /\ RunIdle
    /\ UiIdle

SessStep(s, pc, hist, entry) ==
    sess' = [sess EXCEPT ![s] = [pc |-> pc, history |-> hist, entry |-> entry]]

\* AudioDatabase(): __init__ loads the file
Construct(s) ==
    /\ sess[s].pc = "start"
    /\ SessStep(s, "loaded", load(file), None)
    /\ UNCHANGED <<history, file, clock, before, exceptDb>>

\* add_entry up to self.history.append(entry)
AppendEntry(s) ==
    /\ sess[s].pc = "loaded"
    /\ LET now == [second |-> clock, micro |-> s]
       IN  SessStep(s, "appended",
                    add_entry(sess[s].history, V2Results, RequestMetadata(s), now),
                    NewEntry(V2Results, RequestMetadata(s), now))
    /\ UNCHANGED <<history, file, clock, before, exceptDb>>

\* save: open(path, 'w') truncates the file
SaveOpen(s) ==
    /\ sess[s].pc = "appended"
    /\ file' = Unfinished(<<>>)
    /\ SessStep(s, "writing", sess[s].history, sess[s].entry)
    /\ UNCHANGED <<history, clock, before, exceptDb>>

\* save: json.dump writes the whole history and the file is closed
SaveWrite(s) ==
    /\ sess[s].pc = "writing"
    /\ file' = Saved(sess[s].history)
    /\ SessStep(s, "saved", sess[s].history, sess[s].entry)
    /\ UNCHANGED <<history, clock, before, exceptDb>>

\* the process dies while save is writing: any part of the text is on disk
Crash(s) ==
    /\ sess[s].pc = "writing"
    /\ \E n \in 0..Len(sess[s].history) :
          file' = Unfinished(SubSeq(sess[s].history, 1, n))
    /\ SessStep(s, "crashed", sess[s].history, sess[s].entry)
    /\ UNCHANGED <<history, clock, before, exceptDb>>

Tick ==
    /\ clock < MaxClock
    /\ clock' = clock + 1
    /\ UNCHANGED <<history, file, dbVars, exceptDb>>

DbNext ==
    \/ \E s \in Sessions :
          Construct(s) \/ AppendEntry(s) \/ SaveOpen(s) \/ SaveWrite(s) \/ Crash(s)
    \/ Tick

SpecDB == DbInit /\ [][DbNext]_vars

(***************************************************************************)
(* Claims about the shared history file                                    *)
(***************************************************************************)
\* C2: once two sessions have each loaded the file and finished add_entry,
\* the persisted history holds both new entries and every entry persisted
\* before, whatever the interleaving of their steps.
C2_NoLostEntry ==
    (\A s \in Sessions : sess[s].pc = "saved") =>
        /\ file.valid
        /\ \A s \in Sessions : sess[s].entry \in Range(file.entries)
        /\ Range(before) \subseteq Range(file.entries)

\* C3: while one session alone runs add_entry, at every point of its save
\* (a crash in the middle of the write included) and after it, loading the
\* file yields the history before the append or that history plus the
\* complete new entry.
C3_AtomicAppend ==
    \A s \in Sessions :
        (\A o \in Sessions \ {s} : sess[o].pc = "start") =>
            \/ load(file) = before
            \/ /\ sess[s].pc \in {"writing", "saved", "crashed"}
               /\ load(file) = Append(before, sess[s].entry)

(***************************************************************************)
(* Specification of one analysis request of main(): the script run that    *)
(* constructs the AudioDatabase, then the phases inside the try block; an  *)
(* exception in any of them ends the request in the except handler         *)
(***************************************************************************)
RunInit ==
    /\ before \in EarlierHistories
    /\ file = Saved(before)
    /\ history = <<>>
    /\ clock = 1
    /\ text \in RunTexts
    /\ instruments = <<>>
    /\ parsed = FALSE
    /\ mixer_name \in RunMixerNames
    /\ pa_system \in RunPaNames
    /\ mixer_specs = None
    /\ pa_specs = None
    /\ cache = <<>>
    /\ searched = {}
    /\ stems = <<>>
    /\ stem_m \in [Range(_parse_lineup(text)) ->
                     UNION {RunMeasurementsOf(n) : n \in Range(_parse_lineup(text))}]
    /\ \A n \in DOMAIN stem_m : stem_m[n] \in RunMeasurementsOf(n)
    /\ v2_rms_db = 0
    /\ past_analyses = <<>>
    /\ inst_analyses = None
    /\ phase = "start"
    /\ metadata = [analysis_name |-> 1, venue_capacity |-> 100,
                   mixer |-> mixer_name, pa_system |-> pa_system]
    /\ limit = 0
    /\ similar_entries = None
    /\ match_types = None
    /\ v2_results = None
    /\ sess = <<>>
    /\ fault \in Faults
    /\ done = {}
    /\ add_calls = 0
    /\ UiIdle

Successor(p) ==
    IF p = "lookup" THEN "v2"
    ELSE IF p = "v2" THEN "separate"
    ELSE IF p = "separate" THEN "diagnose"
    ELSE IF p = "diagnose" THEN "compare"
    ELSE IF p = "compare" THEN "store"
    ELSE "complete"

\* a request whose exceptions are swallowed phase by phase
NextPhaseSwallowing(p, raised) == Successor(p)

\* try / except Exception around the phases: a raise skips what follows
NextPhase(p, raised) == IF raised THEN "failed" ELSE Successor(p)

\* the script runs: db = AudioDatabase(), and the analyze button was pressed
StartRequest ==
    /\ phase = "start"
    /\ history' = load(file)
    /\ phase' = "lookup"
    /\ UNCHANGED <<file, clock, parseVars, equipVars, simVars, dbVars, uiVars, runVars,
                   stems, stem_m, v2_rms_db, past_analyses, inst_analyses>>

\* Phase 1: the profile lookups
Phase1 ==
    /\ phase = "lookup"
    /\ LET rm == search_mixer_specs(cache, mixer_name)
           cm == IF mixer_name /= <<>> THEN rm.cache ELSE cache
           rp == search_pa_specs(cm, pa_system)
       IN  /\ mixer_specs' = IF mixer_name /= <<>> THEN rm.ret ELSE None
           /\ pa_specs' = IF pa_system /= <<>> THEN rp.ret ELSE None
           /\ cache' = IF pa_system /= <<>> THEN rp.cache ELSE cm
    /\ searched' = {"mixer" : n \in {mixer_name} \ {<<>>}}
                   \cup {"pa" : n \in {pa_system} \ {<<>>}}
    /\ phase' = NextPhase(phase, FALSE)
    /\ UNCHANGED <<mixer_name, pa_system, parseVars, storeVars, simVars, dbVars, uiVars, runVars,
                   stems, stem_m, v2_rms_db, past_analyses, inst_analyses>>

\* Phase 2: V2Analyzer.analyze decodes the file, then analyses the mix
Phase2 ==
    /\ phase = "v2"
    /\ LET decoded == fault /= "load"
           raised == fault \in {"load", "mix"}
       IN  /\ done' = done \cup (IF decoded THEN {"load"} ELSE {})
                           \cup (IF raised THEN {} ELSE {"mix"})
           /\ v2_rms_db' = IF raised THEN v2_rms_db ELSE V2Results.rms_db
           /\ phase' = NextPhase(phase, raised)
    /\ UNCHANGED <<parseVars, equipVars, storeVars, simVars, dbVars, uiVars, fault, add_calls,
                   stems, stem_m, past_analyses, inst_analyses>>

\* Phase 3: InstrumentSeparator parses the line-up and separates the stems,
\* then find_similar(limit=5) fetches the past sessions
Phase3Separate ==
    /\ phase = "separate"
    /\ LET raised == fault = "separate"
       IN  /\ instruments' = IF raised THEN instruments ELSE _parse_lineup(text)
           /\ parsed' = ~raised
           /\ stems' = instruments'
           /\ past_analyses' = IF raised THEN past_analyses
                               ELSE find_similar(history, metadata, 5)
           /\ done' = done \cup (IF raised THEN {} ELSE {"separate"})
           /\ phase' = NextPhase(phase, raised)
    /\ UNCHANGED <<text, equipVars, storeVars, simVars, dbVars, uiVars, fault, add_calls,
                   stem_m, v2_rms_db, inst_analyses>>

\* Phase 3: analyze_all
Phase3Diagnose ==
    /\ phase = "diagnose"
    /\ inst_analyses' = analyze_all(stems, stem_m, v2_rms_db, mixer_specs, pa_specs,
                                    past_analyses)
    /\ done' = done \cup (IF inst_analyses'.ok THEN {"diagnose"} ELSE {})
    /\ phase' = NextPhase(phase, ~inst_analyses'.ok)
    /\ UNCHANGED <<parseVars, equipVars, storeVars, simVars, dbVars, uiVars, fault, add_calls,
                   stems, stem_m, v2_rms_db, past_analyses>>

\* Phase 4: find_similar(limit=3) and compare_all
Phase4 ==
    /\ phase = "compare"
    /\ LET raised == fault = "compare"
           found == find_similar(history, metadata, 3)
       IN  /\ limit' = IF raised THEN limit ELSE 3
           /\ similar_entries' = IF raised THEN similar_entries ELSE [entries |-> found]
           /\ match_types' = IF raised THEN match_types
                             ELSE [types |-> MatchTypes(metadata, found)]
           /\ done' = done \cup (IF raised THEN {} ELSE {"compare"})
           /\ phase' = NextPhase(phase, raised)
    /\ UNCHANGED <<metadata, v2_results, parseVars, equipVars, stems, stem_m, v2_rms_db,
                   past_analyses, inst_analyses, storeVars, dbVars, uiVars,
                   fault, add_calls>>

\* db.add_entry(v2_results, metadata): append and save
Store ==
    /\ phase = "store"
    /\ history' = add_entry(history, V2Results, metadata, [second |-> clock, micro |-> 0])
    /\ file' = save(history')
    /\ add_calls' = add_calls + 1
    /\ phase' = NextPhase(phase, FALSE)
    /\ UNCHANGED <<clock, parseVars, equipVars, simVars, dbVars, uiVars, fault, done,
                   stems, stem_m, v2_rms_db, past_analyses, inst_analyses>>

RunNext ==
    StartRequest \/ Phase1 \/ Phase2 \/ Phase3Separate \/ Phase3Diagnose \/ Phase4 \/ Store

SpecRun == RunInit /\ [][RunNext]_vars

(***************************************************************************)
(* Claims about the request                                                *)
(***************************************************************************)
\* C1: in one request add_entry is called at most once, and only after the
\* audio loading, the mix analysis, the stem separation, the instrument
\* diagnosis and the comparison with past sessions have all completed
\* without raising; if any of them raises, the history in memory and the
\* persisted history are what they were before the request.
C1_StoreOnceAfterAllStages ==
    /\ add_calls <= 1
    /\ add_calls = 1 =>
          /\ done = Stages
          /\ phase = "complete"
          /\ file = Saved(Append(before, NewEntry(V2Results, metadata,
                                                  [second |-> clock, micro |-> 0])))
          /\ history = file.entries
    /\ (phase = "failed" \/ done /= Stages) =>
          /\ add_calls = 0
          /\ file = Saved(before)
          /\ history \in {<<>>, before}
    /\ phase = "failed" => history = before

C1_Witness ==
    /\ phase = "failed"
    /\ fault = "load"
    /\ before /= <<>>
    /\ history = before
    /\ file = Saved(before)

(***************************************************************************)
(* Specification of the vocal issue rules: any measurement in fractions    *)
(* of a decibel, then _detect_vocal_problems                               *)
(***************************************************************************)
VocalInit ==
    /\ stems = <<"vocal">>
    /\ stem_m \in [{"vocal"} -> FineVocalMeasurements]
    /\ v2_rms_db = 0
    /\ past_analyses = <<>>
    /\ inst_analyses = None
    /\ phase = "detect"
    /\ ParseIdle
    /\ EquipIdle
    /\ StoreIdle
    /\ SimIdle
    /\ DbIdle
    /\ RunIdle
    /\ UiIdle

DetectVocalIssues ==
    /\ phase = "detect"
    /\ inst_analyses' =
          [issues |-> DetectVocalProblems(stem_m["vocal"].bands, stem_m["vocal"], StepsPerDb)]
    /\ phase' = "detected"
    /\ UNCHANGED <<exceptDiag, equipVars, stems, stem_m, v2_rms_db, past_analyses>>

VocalNext == DetectVocalIssues

SpecVocal == VocalInit /\ [][VocalNext]_vars

(***************************************************************************)
(* Specification of the relationship rules: any finished diagnoses, then   *)
(* _analyze_relationships                                                  *)
(***************************************************************************)
RelationsInit ==
    /\ stems \in DiagnosedLineups
    /\ stem_m = <<>>
    /\ v2_rms_db = 0
    /\ past_analyses = <<>>
    /\ \E a \in [Range(stems) -> UNION { DiagnosesOf(t) : t \in RelatedTags }] :
          /\ \A t \in Range(stems) : a[t] \in DiagnosesOf(t)
          /\ inst_analyses = [ok |-> TRUE, analyses |-> a]
    /\ phase = "analysed"
    /\ ParseIdle
    /\ EquipIdle
    /\ StoreIdle
    /\ SimIdle
    /\ DbIdle
    /\ RunIdle
    /\ UiIdle

AnalyzeRelationships ==
    /\ phase = "analysed"
    /\ inst_analyses' =
          [ok |-> TRUE, analyses |-> _analyze_relationships(inst_analyses.analyses)]
    /\ phase' = "related"
    /\ UNCHANGED <<exceptDiag, equipVars, stems, stem_m, v2_rms_db, past_analyses>>

RelationsNext == AnalyzeRelationships

SpecRelations == RelationsInit /\ [][RelationsNext]_vars

(***************************************************************************)
(* Claims about the relationship rules                                     *)
(***************************************************************************)
HasRecommendation(tag, r) ==
    /\ tag \in DOMAIN inst_analyses.analyses
    /\ \E k \in DOMAIN inst_analyses.analyses[tag].recommendations :
          inst_analyses.analyses[tag].recommendations[k] = r

Excess(issue) ==
    LET m == stem_m["vocal"]
    IN  IF issue.problem = "clarity is low" THEN -30 * StepsPerDb - m.bands.clarity
        ELSE IF issue.problem = "boxiness is strong"
        THEN m.bands.body - (m.bands.clarity + 8 * StepsPerDb)
        ELSE IF issue.problem = "sibilance is excessive"
        THEN m.bands.sibilance - (m.bands.clarity + 5 * StepsPerDb)
        ELSE IF issue.problem = "vocal is over-compressed" THEN 6 * StepsPerDb - m.crest_factor
        ELSE IF issue.problem = "vocal dynamics too wide" THEN m.crest_factor - 15 * StepsPerDb
        ELSE IF issue.problem = "vocal is buried" THEN -8 * StepsPerDb - m.level_vs_mix
        ELSE m.level_vs_mix + 1 * StepsPerDb

\* C11: for a vocal stem with a crest factor of 5 dB the issue list holds an
\* over-compression issue of severity critical, placed above every other
\* issue whose measurement is past its threshold by less than the crest
\* factor is below 6 dB.
C11_OverCompressionRankedFirst ==
    (phase = "detected" /\ stem_m["vocal"].crest_factor = 5 * StepsPerDb) =>
        LET issues == inst_analyses.issues
        IN  \E k \in 1..Len(issues) :
               /\ issues[k].problem = "vocal is over-compressed"
               /\ issues[k].severity = "critical"
               /\ \A j \in 1..Len(issues) :
                     (j /= k /\ Excess(issues[j]) < Excess(issues[k])) => k < j

\* the place of the rule that raises an issue in the order of evaluation
RuleOrder(issue) ==
    IF issue.problem = "clarity is low" THEN 1
    ELSE IF issue.problem = "boxiness is strong" THEN 2
    ELSE IF issue.problem = "sibilance is excessive" THEN 3
    ELSE IF issue.category = "dynamics" THEN 4
    ELSE 5

\* C12: the issue list is in non-increasing order of score, and two issues of
\* equal score stay in the order in which their rules are evaluated (clarity,
\* boxiness, sibilance, dynamics, level balance).
C12_SortedStable ==
    phase = "detected" =>
        LET issues == inst_analyses.issues
        IN  \A a, b \in 1..Len(issues) :
               a < b =>
                  /\ issues[a].score >= issues[b].score
                  /\ issues[a].score = issues[b].score =>
                        RuleOrder(issues[a]) < RuleOrder(issues[b])

C12_Witness ==
    /\ phase = "detected"
    /\ Len(inst_analyses.issues) >= 3
    /\ \E a \in 1..(Len(inst_analyses.issues) - 1) :
          /\ inst_analyses.issues[a].score = inst_analyses.issues[a + 1].score
          /\ RuleOrder(inst_analyses.issues[a]) < RuleOrder(inst_analyses.issues[a + 1])
    /\ \E a \in 1..(Len(inst_analyses.issues) - 1) :
          inst_analyses.issues[a].score > inst_analyses.issues[a + 1].score

(***************************************************************************)
(* Claims about what a request leaves in the history                       *)
(***************************************************************************)
\* the numeric fields of the result of V2Analyzer.analyze
MixMetricFields ==
    {"rms_db", "peak_db", "crest_factor", "stereo_width", "correlation", "dynamic_range",
     "band_energies", "avg_onset", "max_onset", "onset_density", "sub_bass_ratio"}

\* the entry of the request as a later load of the file returns it
StoredEntry == load(file)[Len(load(file))]

\* C13: the result of V2Analyzer.analyze written with add_entry and loaded
\* again holds every numeric field (rms_db, peak_db, crest_factor,
\* stereo_width, correlation, dynamic_range, the 7 band_energies, the onset
\* average, maximum and density, sub_bass_ratio) with the value it had.
C13_MixMetricsRoundTrip ==
    (phase = "complete" /\ add_calls = 1) =>
        \A f \in MixMetricFields :
            /\ f \in DOMAIN StoredEntry.analysis
            /\ StoredEntry.analysis[f] = V2Results[f]

\* C14: after a successful request the entry appended to the history holds
\* a diagnosis for each instrument diagnosed, so that _find_past_analysis of
\* a later request finds it for the same tag.
C14_EntryHoldsDiagnoses ==
    (phase = "complete" /\ add_calls = 1) =>
        \A n \in DOMAIN inst_analyses.analyses :
            /\ n \in DOMAIN StoredEntry.analysis.instruments
            /\ _find_past_analysis(<<StoredEntry>>, n) /= None

(***************************************************************************)
(* Claims about the trend against past sessions                            *)
(***************************************************************************)
\* the entries of the history that hold a diagnosis of the tag
EntriesWith(tag) ==
    {i \in 1..Len(history) : tag \in DOMAIN history[i].analysis.instruments}

\* the most recent of them, by timestamp
MostRecentWith(tag) ==
    history[CHOOSE i \in EntriesWith(tag) :
               \A j \in EntriesWith(tag) :
                   history[j].timestamp[1] <= history[i].timestamp[1]]

Diagnosed(tag) ==
    /\ phase = "diagnosed"
    /\ inst_analyses.ok
    /\ tag \in DOMAIN inst_analyses.analyses

\* C15: when several entries of the history hold a diagnosis of a tag, the
\* trend of the current diagnosis of the tag is computed against the most
\* recent of them, whatever their similarity scores and their order.
C15_TrendAgainstMostRecent ==
    \A tag \in {"vocal", "kick"} :
        (Diagnosed(tag) /\ EntriesWith(tag) /= {}) =>
            LET d == inst_analyses.analyses[tag]
            IN  /\ d.trend /= None
                /\ d.trend.rms_change
                      = d.rms_db - MostRecentWith(tag).analysis.instruments[tag].rms_db

FrequencyBalanceTitles == {"vocal clarity", "boxiness removal", "sibilance control"}

\* C17: when the trend of the vocal diagnosis against its past diagnosis is
\* improving (the level rose by more than 2 dB and the clarity band rose by more
\* than 2 dB against every past diagnosis of the history), no recommendation is
\* produced for a frequency balance issue.
C17_ImprovingTrendSkips ==
    (/\ Diagnosed("vocal")
     /\ inst_analyses.analyses["vocal"].trend /= None
     /\ inst_analyses.analyses["vocal"].trend.status = "improving"
     /\ \A i \in EntriesWith("vocal") :
           inst_analyses.analyses["vocal"].freq_bands.clarity
              - history[i].analysis.instruments["vocal"].freq_bands.clarity > 2)
    => \A k \in DOMAIN inst_analyses.analyses["vocal"].recommendations :
          inst_analyses.analyses["vocal"].recommendations[k].title
             \notin FrequencyBalanceTitles

\* C18: the recommendations of a vocal diagnosis come from its three
\* top-ranked issues only: at most three of them, at most one per issue
\* category, in the rank order of the issues they answer.
C18_TopThreeOnePerCategory ==
    Diagnosed("vocal") =>
        LET issues == inst_analyses.analyses["vocal"].issues
            recs == inst_analyses.analyses["vocal"].recommendations
            top == 1 .. (IF Len(issues) < 3 THEN Len(issues) ELSE 3)
        IN  /\ Len(recs) <= 3
            /\ \E f \in [DOMAIN recs -> top] :
                  /\ \A k \in DOMAIN recs :
                        /\ recs[k].problem_detail = issues[f[k]].problem
                        /\ recs[k].priority = issues[f[k]].severity
                  /\ \A j, k \in DOMAIN recs :
                        j < k => /\ f[j] < f[k]
                                 /\ issues[f[j]].category /= issues[f[k]].category

C18_Witness ==
    /\ Diagnosed("vocal")
    /\ Len(inst_analyses.analyses["vocal"].issues) >= 4
    /\ inst_analyses.analyses["vocal"].issues[1].category
          = inst_analyses.analyses["vocal"].issues[2].category
    /\ Len(inst_analyses.analyses["vocal"].recommendations) = 2

(***************************************************************************)
(* Claims about the comparison with past sessions                          *)
(***************************************************************************)
\* the tier of a console by its family, in tenths
ExpectedTier(name) ==
    IF Contains(Lower(name), <<"x", "3", "2">>) THEN 5
    ELSE IF Contains(Lower(name), <<"s", "q">>) THEN 7
    ELSE IF Contains(Lower(name), <<"q", "l">>) THEN 8
    ELSE IF Contains(Lower(name), <<"c", "l">>) THEN 10
    ELSE 5

ExpectedCorrection(e) ==
    IF metadata.mixer = <<>> \/ e.equipment.mixer = <<>> THEN 0
    ELSE IF metadata.mixer = e.equipment.mixer THEN 0
    ELSE 2 * (ExpectedTier(metadata.mixer) - ExpectedTier(e.equipment.mixer))

\* C20: in every comparison the RMS difference is the current rms less the
\* sum of the past rms and the correction; the correction is twice the tier of
\* the current console less the tier of the past console (cl 1.0, ql 0.8,
\* sq 0.7, x32 and unknown families 0.5), and 0 when the two console names
\* are equal or one of them is missing. Levels in tenths of a dB.
C20_RmsDifferenceCorrected ==
    match_types /= None =>
        \A k \in 1..Len(similar_entries.entries) :
            LET e == similar_entries.entries[k]
                m == match_types.rms[k]
            IN  /\ m.correction_applied = ExpectedCorrection(e)
                /\ m.difference
                      = 10 * CurrentResults.rms_db
                        - (10 * e.analysis.rms_db + ExpectedCorrection(e))

C20_Witness ==
    /\ match_types /= None
    /\ \E k \in 1..Len(match_types.rms) :
          /\ match_types.rms[k].correction_applied = 4
          /\ match_types.rms[k].difference = 16
    /\ \E k \in 1..Len(match_types.rms) : match_types.rms[k].correction_applied = 10
    /\ \E k \in 1..Len(match_types.rms) :
          /\ similar_entries.entries[k].equipment.mixer = metadata.mixer
          /\ metadata.mixer /= <<>>
          /\ match_types.rms[k].difference = 20

(***************************************************************************)
(* Specification of the comparison: a history of sessions recorded with    *)
(* any metrics, then find_similar and compare_all for the current request  *)
(***************************************************************************)
CompareInit ==
    /\ \E past \in { [V2Results EXCEPT !.stereo_width = w, !.band_energies[6] = p] :
                        w \in {29, 40}, p \in {-33, -36} },
          meta \in { [venue_capacity |-> 150, mixer |-> <<"Y", "a", "m", "a", "h", "a", " ", "C", "L", "5">>, pa_system |-> p] :
                        p \in { <<"d", "&", "b", " ", "V", "-", "S", "e", "r", "i", "e", "s">>, <<"J", "B", "L", " ", "V", "T", "X">> } } :
          history = add_entry(<<>>, past, meta, [second |-> 1, micro |-> 0])
    /\ file = Saved(history)
    /\ clock = 1
    /\ metadata \in { [venue_capacity |-> 150, mixer |-> <<"Y", "a", "m", "a", "h", "a", " ", "C", "L", "5">>, pa_system |-> p] :
                        p \in { <<"d", "&", "b", " ", "V", "-", "S", "e", "r", "i", "e", "s">>, <<"J", "B", "L", " ", "V", "T", "X">> } }
    /\ limit = 0
    /\ similar_entries = None
    /\ match_types = None
    /\ v2_results \in { [V2Results EXCEPT !.rms_db = r, !.stereo_width = w,
                                          !.band_energies[6] = p] :
                           r \in {-23, -22, -18, -17}, w \in {40, 50},
                           p \in {-33, -29, -27} }
    /\ ParseIdle
    /\ EquipIdle
    /\ DiagIdle
    /\ DbIdle
    /\ RunIdle
    /\ UiIdle

CompareNext == FindSimilar \/ CompareAll

SpecCompare == CompareInit /\ [][CompareNext]_vars

(***************************************************************************)
(* Claims about the insights of a comparison                               *)
(***************************************************************************)
InsightsAbout(comparison, what) ==
    { k \in DOMAIN comparison.insights : comparison.insights[k].about = what }

\* C21: in every comparison an exact_match has exactly one RMS insight:
\* improvement if the RMS difference is above 2 dB, regression if below
\* -2 dB, stable otherwise; there is a stereo width change note iff the
\* width difference is beyond 10 either way; and each compared band has a
\* change note iff the difference of the current band to the corrected past
\* band is beyond 6 dB either way.
C21_Insights ==
    match_types /= None =>
        \A k \in 1..Len(similar_entries.entries) :
            LET e == similar_entries.entries[k]
                c == match_types.comparisons[k]
                rms_diff == 10 * v2_results.rms_db - 10 * e.analysis.rms_db
                                - ExpectedCorrection(e)
                brighter(pa) == IF Contains(Lower(pa), <<"j", "b", "l">>) THEN 2 ELSE 0
                tilt == IF metadata.pa_system = <<>> \/ e.equipment.pa_system = <<>>
                        THEN 0
                        ELSE brighter(metadata.pa_system) - brighter(e.equipment.pa_system)
                band_diff(i) ==
                    v2_results.band_energies[i]
                    - (e.analysis.band_energies[i]
                       + (IF i = 6 THEN -((3 * tilt) \div 2) ELSE IF i = 7 THEN -(2 * tilt)
                          ELSE 0))
            IN  /\ c.match_type = "exact_match" =>
                      /\ Cardinality(InsightsAbout(c, "rms")) = 1
                      /\ \A j \in InsightsAbout(c, "rms") :
                            c.insights[j].type =
                               IF rms_diff > 20 THEN "improvement"
                               ELSE IF rms_diff < -20 THEN "regression"
                               ELSE "stable"
                /\ (InsightsAbout(c, "stereo_width") /= {}
                       <=> Abs(v2_results.stereo_width - e.analysis.stereo_width) > 10)
                /\ Cardinality(InsightsAbout(c, "stereo_width")) <= 1
                /\ \A i \in 1..7 :
                      /\ (InsightsAbout(c, band_names[i]) /= {} <=> Abs(band_diff(i)) > 6)
                      /\ Cardinality(InsightsAbout(c, band_names[i])) <= 1
                      /\ \A j \in InsightsAbout(c, band_names[i]) :
                            c.insights[j].type = "change"

C21_Witness ==
    /\ match_types /= None
    /\ Len(match_types.comparisons) = 1
    /\ match_types.comparisons[1].match_type = "exact_match"
    /\ v2_results.rms_db - history[1].analysis.rms_db = 3
    /\ v2_results.stereo_width - history[1].analysis.stereo_width = 21
    /\ v2_results.band_energies[6] - history[1].analysis.band_energies[6] = 9
    /\ Len(match_types.comparisons[1].insights) = 3
    /\ match_types.comparisons[1].insights[1].type = "improvement"

\* C28: in a comparison whose match_type is exact_match no correction
\* between set-ups is applied: the RMS correction is 0, the corrected past
\* RMS is the raw one, the seven loudspeaker band corrections are 0, and the
\* differences reported are the raw differences.
C28_ExactMatchUncorrected ==
    match_types /= None =>
        \A k \in 1..Len(similar_entries.entries) :
            LET e == similar_entries.entries[k]
                c == match_types.comparisons[k]
            IN  c.match_type = "exact_match" =>
                    /\ c.metrics.rms.correction_applied = 0
                    /\ c.metrics.rms.past_corrected = c.metrics.rms.past_raw
                    /\ c.metrics.rms.difference
                          = 10 * v2_results.rms_db - 10 * e.analysis.rms_db
                    /\ _get_pa_corrections(metadata.pa_system, e.equipment.pa_system)
                          = <<0, 0, 0, 0, 0, 0, 0>>
                    /\ ~c.metrics.frequency_balance.pa_correction_applied
                    /\ \A i \in 1..7 :
                          c.metrics.frequency_balance.differences[i]
                             = v2_results.band_energies[i] - e.analysis.band_energies[i]

C28_Witness ==
    /\ match_types /= None
    /\ Len(match_types.comparisons) = 1
    /\ match_types.comparisons[1].match_type = "exact_match"
    /\ Contains(Lower(metadata.pa_system), <<"j", "b", "l">>)
    /\ match_types.comparisons[1].metrics.rms.difference = 30
    /\ match_types.comparisons[1].metrics.frequency_balance.differences[6] = 7

(***************************************************************************)
(* Specification of the authenticated application                          *)
(* (pa_analyzer_with_auth.py): every action is one run of main() after an  *)
(* event in the browser.  The pages of auth_system are known by what they  *)
(* leave in st.session_state.  Levels of the demo data in tenths.          *)
(***************************************************************************)
MaxStored == 3

\* the options of the menu radio for the user logged in
MenuOptions(user) ==
    {"analyzer", "history", "profile"}
    \cup (IF user.role = "admin" THEN {"admin"} ELSE {})

\* a main() that renders the page chosen whoever asks
main_page_open(ss, menu) == menu

\* the page a run of main() renders
main_page(ss, menu) ==
    IF ~ss.authenticated
    THEN (IF ss.page = "login" THEN "login"
          ELSE IF ss.page = "register" THEN "register"
          ELSE "nothing")
    ELSE IF menu = "analyzer" THEN "analyzer"
    ELSE IF menu = "history" THEN "history"
    ELSE IF menu = "profile" THEN "profile"
    ELSE IF menu = "admin" /\ ss.user.role = "admin" THEN "admin"
    ELSE "nothing"

\* UserAudioDatabase.add_analysis: the analysis is appended under the user
add_analysis(stored, email, analysis_data, meta) ==
    Append(stored, [id |-> Len(stored) + 1, user |-> email,
                    analysis |-> analysis_data, metadata |-> meta])

AuthInit ==
    /\ session_state = [authenticated |-> FALSE, user |-> None, page |-> "login"]
    /\ shown = "nothing"
    /\ user_analyses = <<>>
    /\ ParseIdle
    /\ EquipIdle
    /\ DiagIdle
    /\ StoreIdle
    /\ SimIdle
    /\ DbIdle
    /\ RunIdle

\* a run with no event, or after the menu radio was moved
Rerun ==
    /\ \E menu \in IF session_state.authenticated THEN MenuOptions(session_state.user)
                   ELSE {"analyzer", "history", "profile", "admin"} :
          shown' = main_page(session_state, menu)
    /\ UNCHANGED <<session_state, user_analyses, exceptUi>>

\* the link between the login and the registration page
SwitchPage ==
    /\ shown \in {"login", "register"}
    /\ session_state' = [session_state EXCEPT !.page = IF shown = "login" THEN "register"
                                                        ELSE "login"]
    /\ shown' = main_page(session_state', "analyzer")
    /\ UNCHANGED <<user_analyses, exceptUi>>

\* show_login_page accepts the credentials of a user
Login ==
    /\ shown = "login"
    /\ \E u \in { [email |-> "admin@example.com", role |-> "admin"],
                  [email |-> "user@example.com", role |-> "user"] } :
          session_state' = [session_state EXCEPT !.authenticated = TRUE, !.user = u]
    /\ shown' = main_page(session_state', "analyzer")
    /\ UNCHANGED <<user_analyses, exceptUi>>

\* the demo form of show_analyzer_page is submitted
DemoAnalysis ==
    /\ shown = "analyzer"
    /\ main_page(session_state, "analyzer") = "analyzer"
    /\ Len(user_analyses) < MaxStored
    /\ user_analyses' =
          add_analysis(user_analyses, session_state.user.email,
                       [rms_db |-> -182, peak_db |-> -31, stereo_width |-> 653,
                        crest_factor |-> 123, band_energies |-> <<>>],
                       [venue_capacity |-> 150, mixer |-> <<"Y", "a", "m", "a", "h", "a", " ", "C", "L", "5">>,
                        pa_system |-> <<"d", "&", "b", " ", "V", "-", "S", "e", "r", "i", "e", "s">>])
    /\ UNCHANGED <<session_state, shown, exceptUi>>

\* the logout button: the state is reset and the script runs again
Logout ==
    /\ session_state.authenticated
    /\ shown \in MenuOptions(session_state.user)
    /\ session_state' = [authenticated |-> FALSE, user |-> None, page |-> "login"]
    /\ shown' = main_page(session_state', "analyzer")
    /\ UNCHANGED <<user_analyses, exceptUi>>

AuthNext == Rerun \/ SwitchPage \/ Login \/ DemoAnalysis \/ Logout

SpecAuth == AuthInit /\ [][AuthNext]_vars

(***************************************************************************)
(* Claims about the authenticated application                              *)
(***************************************************************************)
\* C22: band_energies has exactly 7 values in the analysis of every entry
\* the application persists, here those add_analysis stores from the
\* authenticated analyzer page.
C22_SevenBandsStored ==
    \A k \in DOMAIN user_analyses : Len(user_analyses[k].analysis.band_energies) = 7

\* C30: while st.session_state.authenticated is false none of the analyzer,
\* history, profile and admin pages is shown and no analysis is stored; the
\* admin dashboard is shown only to a logged-in user whose role is admin; and
\* a logout leaves authenticated false, user None and page 'login'.
C30_AuthenticationGate ==
    /\ [](~session_state.authenticated => shown \in {"nothing", "login", "register"})
    /\ [](shown = "admin" =>
             session_state.authenticated /\ session_state.user.role = "admin")
    /\ [][~session_state.authenticated => user_analyses' = user_analyses]_vars
    /\ [][(session_state.authenticated /\ ~session_state'.authenticated) =>
             session_state' = [authenticated |-> FALSE, user |-> None, page |-> "login"]]_vars

C30_Witness ==
    /\ ~session_state.authenticated
    /\ session_state.user = None
    /\ shown = "login"
    /\ \E j, k \in DOMAIN user_analyses :
          /\ user_analyses[j].user = "admin@example.com"
          /\ user_analyses[k].user = "user@example.com"

(***************************************************************************)
(* Claims about the diagnosis of every stem                                *)
(***************************************************************************)
\* C23: for every line-up of stems with canonical tags, analyze_instrument
\* raises nothing and analyze_all returns exactly one diagnosis per stem.
C23_DiagnosisPerStem ==
    phase = "diagnosed" =>
        /\ inst_analyses.ok
        /\ DOMAIN inst_analyses.analyses = Range(stems)

(***************************************************************************)
(* Claims about the order of the stages of a request                       *)
(***************************************************************************)
\* C24: within a request the stages run one after another in the order mix
\* analysis, stem separation, instrument diagnosis, comparison with past
\* sessions, history append: the separation and the comparison are not
\* started before the mix analysis has returned its results, and the
\* diagnosis is not started before the separation has returned the stems.
C24_StagesInOrder ==
    /\ "separate" \in done => "mix" \in done
    /\ "diagnose" \in done => "separate" \in done
    /\ "compare" \in done => "diagnose" \in done
    /\ add_calls > 0 => "compare" \in done
    /\ "mix" \in done => v2_rms_db = V2Results.rms_db
    /\ phase = "separate" => "mix" \in done /\ ~parsed
    /\ phase = "diagnose" =>
          /\ {"mix", "separate"} \subseteq done
          /\ parsed /\ stems = instruments
          /\ inst_analyses = None
    /\ phase = "compare" => {"mix", "separate", "diagnose"} \subseteq done /\ match_types = None
    /\ phase = "store" => done = Stages /\ add_calls = 0

C24_Witness ==
    /\ phase = "complete"
    /\ done = Stages
    /\ add_calls = 1
    /\ stems /= <<>>
    /\ inst_analyses /= None
    /\ match_types /= None

(***************************************************************************)
(* Claims about the recommendations of the vocal diagnosis                 *)
(***************************************************************************)
\* the three top-ranked issues of the vocal diagnosis
TopIssues ==
    LET issues == inst_analyses.analyses["vocal"].issues
    IN  SubSeq(issues, 1, IF Len(issues) < 3 THEN Len(issues) ELSE 3)

\* C25: with no trend against a past diagnosis, the vocal diagnosis holds one
\* recommendation for each category (frequency balance, dynamics, level
\* balance) found among its three top-ranked issues.
C25_OneRecommendationPerCategory ==
    (Diagnosed("vocal") /\ inst_analyses.analyses["vocal"].trend = None) =>
        Len(inst_analyses.analyses["vocal"].recommendations)
           = Cardinality({ TopIssues[i].category : i \in DOMAIN TopIssues })

\* C26: a recommendation made for the over-compression issue (crest factor
\* below 6 dB) holds the compressor relaxation approach; the compressor
\* setting approach is held only by a recommendation made for the issue of
\* too wide dynamics (crest factor above 15 dB).
C26_DynamicsApproachFollowsIssue ==
    Diagnosed("vocal") =>
        \A k \in DOMAIN inst_analyses.analyses["vocal"].recommendations :
            LET r == inst_analyses.analyses["vocal"].recommendations[k]
            IN  r.title = "dynamics optimisation" =>
                    /\ r.problem_detail = "vocal is over-compressed" =>
                          Methods(r) = <<"Compressor relaxation">>
                    /\ "Compressor setting" \in Range(Methods(r)) =>
                          /\ r.problem_detail = "vocal dynamics too wide"
                          /\ inst_analyses.analyses["vocal"].crest_factor > 15

(***************************************************************************)
(* Claims about the ids of the entries                                     *)
(***************************************************************************)
\* C27: no two entries of a history have the same id, in the history of
\* every AudioDatabase and in the file, two entries added within the same
\* clock second included.
C27_UniqueIds ==
    LET unique(h) == \A i, j \in DOMAIN h : i /= j => h[i].id /= h[j].id
    IN  /\ \A s \in DOMAIN sess : unique(sess[s].history)
        /\ file.valid => unique(file.entries)

(***************************************************************************)
(* Specification of the session of the main analyzer: every action is one  *)
(* run of main() after an event in the browser; a run with the analyze     *)
(* button pressed carries out the whole request                            *)
(***************************************************************************)
\* a main() that shows the form whatever the session state holds
FormAlwaysShown(ss) == TRUE

\* main() gets past the banner of a completed analysis to the form
FormShown(ss) == ~ss.analysis_complete

MainInit ==
    /\ session_state = [analysis_complete |-> FALSE, current_results |-> None]
    /\ shown = "nothing"
    /\ user_analyses = <<>>
    /\ history = <<>>
    /\ file = Saved(<<>>)
    /\ clock = 1
    /\ ParseIdle
    /\ EquipIdle
    /\ DiagIdle
    /\ SimIdle
    /\ DbIdle
    /\ RunIdle

\* a run with no button pressed: the database is constructed, then the
\* banner or the form is shown
RerunMain ==
    /\ history' = load(file)
    /\ shown' = IF FormShown(session_state) THEN "form" ELSE "banner"
    /\ UNCHANGED <<file, clock, session_state, user_analyses, parseVars, equipVars,
                   diagVars, simVars, dbVars, runVars>>

\* a run with the analyze button pressed: the request ends in add_entry or
\* in the except clause
AnalyzeRequest ==
    /\ shown = "form"
    /\ FormShown(session_state)
    /\ Len(load(file)) < MaxHistory
    /\ \E raised \in BOOLEAN, name \in {1, 2} :
          LET meta == [analysis_name |-> name, venue_capacity |-> 150,
                       mixer |-> <<"Y", "a", "m", "a", "h", "a", " ", "C", "L", "5">>, pa_system |-> <<"B", "o", "s", "e">>]
              now == [second |-> clock, micro |-> 0]
          IN  IF raised
              THEN /\ history' = load(file)
                   /\ shown' = "error"
                   /\ UNCHANGED <<file, session_state, add_calls>>
              ELSE /\ history' = add_entry(load(file), V2Results, meta, now)
                   /\ file' = save(history')
                   /\ add_calls' = add_calls + 1
                   /\ session_state' =
                         [analysis_complete |-> TRUE,
                          current_results |-> [entry_id |-> NewEntry(V2Results, meta, now).id,
                                               analysis_name |-> name]]
                   /\ shown' = "results"
    /\ UNCHANGED <<clock, user_analyses, parseVars, equipVars, diagVars, simVars, dbVars,
                   fault, done>>

\* the button under the banner: the state is reset and the script runs again
NextAnalysis ==
    /\ shown = "banner"
    /\ session_state' = [analysis_complete |-> FALSE, current_results |-> None]
    /\ history' = load(file)
    /\ shown' = IF FormShown(session_state') THEN "form" ELSE "banner"
    /\ UNCHANGED <<file, clock, user_analyses, parseVars, equipVars, diagVars, simVars,
                   dbVars, runVars>>

MainNext == RerunMain \/ AnalyzeRequest \/ NextAnalysis \/ Tick

SpecMain == MainInit /\ [][MainNext]_vars

(***************************************************************************)
(* Claims about the session of the main analyzer                           *)
(***************************************************************************)
\* C29: analysis_complete becomes true only in the run in which add_entry
\* returned the id of the entry of the current request; while it is true, no
\* run appends a history entry; the button for the next analysis sets it to
\* false and current_results to None, and the form is shown again.
C29_CompleteBlocksAnalysis ==
    /\ [][(~session_state.analysis_complete /\ session_state'.analysis_complete) =>
             /\ add_calls' = add_calls + 1
             /\ file' = Saved(history')
             /\ Len(history') = Len(load(file)) + 1
             /\ session_state'.current_results.entry_id = history'[Len(history')].id]_vars
    /\ [][session_state.analysis_complete =>
             /\ add_calls' = add_calls
             /\ file' = file
             /\ shown' \in {shown, "banner", "form"}]_vars
    /\ [][(session_state.analysis_complete /\ ~session_state'.analysis_complete) =>
             /\ session_state'.current_results = None
             /\ shown' = "form"]_vars
    /\ [](session_state.analysis_complete <=> session_state.current_results /= None)

C29_Witness ==
    /\ session_state.analysis_complete
    /\ add_calls = 2
    /\ Len(file.entries) = 2
    /\ shown = "banner"

====
